---------------------------- MODULE Spec2Model ----------------------------
(***************************************************************************)
(* A model of plume's compression core (src-tauri/src/domain/compression): *)
(* the settings value object, the file-to-file engine, the statistics      *)
(* helpers and the SQLite statistics store.                                *)
(*                                                                         *)
(* f64 values are modelled as exact rationals [n, d] in lowest terms       *)
(* (rounding is not modelled); u64 subtraction keeps its width through a   *)
(* borrow flag, so a wrapped difference is told apart from a signed one.   *)
(***************************************************************************)
EXTENDS Integers, Sequences, FiniteSets, TLC

VARIABLES
    settings,        \* settings.rs: the CompressionSettings value being built
    settings_op,     \* the constructor / builder call that produced it
    overflow_checks, \* build profile: are integer overflow checks compiled in
    ret,             \* the last call of a pure function: its inputs and result
    files,           \* the file system: path -> content, or Absent
    engine_call,     \* the last compress_file_to_file call: inputs, effects, result
    stdev_resolves,  \* does the linked SQLite resolve the STDEV aggregate
    rows,            \* store.rs: the rows of table compression_stats, by rowid
    next_id,         \* store.rs: the AUTOINCREMENT sequence of the table
    saved,           \* history: successful save_stat calls since the last clear_all
    store_call,      \* the last StatsStore call: its inputs and result
    compressors,     \* compression_service.rs: CompressionService.compressors
    service_call,    \* the last CompressionService / ImageCompressor call
    calculator,      \* progress.rs: the ProgressCalculator (its config)
    elapsed_ms,      \* milliseconds since ProgressCalculator.start_time
    progress_call,   \* the last ProgressCalculator call: its clock and result
    prev_progress,   \* history: the current_progress sample before that
    batch,           \* commands/compression.rs: the locals of compress_batch
    events,          \* the events emitted through app_handle, in order
    store_locks,     \* commands/*.rs: the holder of each static STATS_STORE mutex
    running,         \* where each invoked command stands
    event_bus,       \* events.rs: the EventBus (listeners, history, limit)
    published,       \* history: every event handed to publish, in order
    bus_call,        \* the last EventBus call and its result
    config_manager,  \* config.rs: ConfigManager.config
    app_state_config,\* shared/mod.rs: the AppConfig behind AppState.config
    config_call      \* the last update_config call: the config before, the result

vars == <<settings, settings_op, overflow_checks, ret, files, engine_call,
          stdev_resolves, rows, next_id, saved, store_call,
          compressors, service_call,
          calculator, elapsed_ms, progress_call, prev_progress,
          batch, events, store_locks, running,
          event_bus, published, bus_call,
          config_manager, app_state_config, config_call>>

settings_vars == <<settings, settings_op>>
pure_vars == <<overflow_checks, ret>>
engine_vars == <<files, engine_call>>
store_vars == <<stdev_resolves, rows, next_id, saved, store_call>>
service_vars == <<compressors, service_call>>
progress_vars == <<calculator, elapsed_ms, progress_call, prev_progress>>
batch_vars == <<batch, events>>
lock_vars == <<store_locks, running>>
bus_vars == <<event_bus, published, bus_call>>
config_vars == <<config_manager, app_state_config, config_call>>
shared_vars == <<bus_vars, config_vars>>
after_batch_vars == <<lock_vars, shared_vars>>
after_progress_vars == <<batch_vars, after_batch_vars>>
after_service_vars == <<progress_vars, after_progress_vars>>
later_vars == <<service_vars, after_service_vars>>

---------------------------------------------------------------------------
(* Rationals standing for f64 values.                                      *)

RECURSIVE GCD(_, _)
GCD(a, b) == IF b = 0 THEN a ELSE GCD(b, a % b)

Abs(x) == IF x < 0 THEN -x ELSE x

\* n/d in lowest terms, d > 0
Rat(n, d) ==
    LET g == GCD(Abs(n), Abs(d))
        s == IF d < 0 THEN -1 ELSE 1
    IN  [n |-> s * (n \div g), d |-> s * (d \div g)]

RatInt(k) == [n |-> k, d |-> 1]
RatLE(a, b) == a.n * b.d <= b.n * a.d
RatLT(a, b) == a.n * b.d < b.n * a.d
RatMul(a, b) == Rat(a.n * b.n, a.d * b.d)
RatAdd(a, b) == Rat(a.n * b.d + b.n * a.d, a.d * b.d)
RatSub(a, b) == Rat(a.n * b.d - b.n * a.d, a.d * b.d)
RatDiv(a, b) == Rat(a.n * b.d, a.d * b.n)
RatMin(a, b) == IF RatLE(a, b) THEN a ELSE b

---------------------------------------------------------------------------
(* formats.rs                                                              *)

OutputFormat == {"Png", "Jpeg", "WebP"}

\* str::to_lowercase on the tokens
to_lowercase(s) ==
    CASE s \in {"png", "PNG", "Png"} -> "png"
      [] s \in {"jpg", "JPG"} -> "jpg"
      [] s \in {"jpeg", "Jpeg", "JPEG"} -> "jpeg"
      [] s \in {"webp", "WEBP", "WebP"} -> "webp"
      [] OTHER -> s

None == [some |-> FALSE]
Some(v) == [some |-> TRUE, v |-> v]

\* OutputFormat::from_string
from_string(format) ==
    LET f == to_lowercase(format)
    IN  CASE f = "png" -> Some("Png")
          [] f \in {"jpeg", "jpg"} -> Some("Jpeg")
          [] f = "webp" -> Some("WebP")
          [] OTHER -> None

unwrap_or(opt, dflt) == IF opt.some THEN opt.v ELSE dflt

---------------------------------------------------------------------------
(* settings.rs                                                             *)

U8Max == 255
U8 == 0..U8Max

QualityMin == 1
QualityMax == 100

\* Ord::clamp, with no lower bound applied
ClampUpperOnly(x, lo, hi) == IF x > hi THEN hi ELSE x

\* Ord::clamp
clamp(x, lo, hi) == IF x < lo THEN lo ELSE IF x > hi THEN hi ELSE x

\* CompressionSettings::new
new(quality, format) ==
    [quality |-> clamp(quality, QualityMin, QualityMax),
     format |-> format,
     preserve_metadata |-> FALSE,
     optimize_alpha |-> TRUE]

\* CompressionSettings::with_quality
with_quality(self, quality) ==
    [self EXCEPT !.quality = clamp(quality, QualityMin, QualityMax)]

\* CompressionSettings::with_metadata_preservation
with_metadata_preservation(self, preserve) ==
    [self EXCEPT !.preserve_metadata = preserve]

\* CompressionSettings::with_alpha_optimization
with_alpha_optimization(self, optimize) ==
    [self EXCEPT !.optimize_alpha = optimize]

\* CompressionSettings::is_valid
is_valid(self) == self.quality \in QualityMin..QualityMax

\* A settings value with the public quality field assigned directly, as
\* test_settings_validation does.
RawSettings(quality, format) == [new(80, format) EXCEPT !.quality = quality]

\* the u8 values the builder calls are tried with
QualityInputs == {0, 1, 2, 50, 99, 100, 101, 200, 254, 255}

WithQuality(q) ==
    /\ settings' = with_quality(settings, q)
    /\ settings_op' = [op |-> "with_quality", quality |-> q]
    /\ UNCHANGED <<pure_vars, engine_vars, store_vars, later_vars>>

WithMetadataPreservation(b) ==
    /\ settings' = with_metadata_preservation(settings, b)
    /\ settings_op' = [op |-> "with_metadata_preservation"]
    /\ UNCHANGED <<pure_vars, engine_vars, store_vars, later_vars>>

WithAlphaOptimization(b) ==
    /\ settings' = with_alpha_optimization(settings, b)
    /\ settings_op' = [op |-> "with_alpha_optimization"]
    /\ UNCHANGED <<pure_vars, engine_vars, store_vars, later_vars>>

NextSettings ==
    \/ \E q \in QualityInputs : WithQuality(q)
    \/ \E b \in BOOLEAN : WithMetadataPreservation(b)
    \/ \E b \in BOOLEAN : WithAlphaOptimization(b)

---------------------------------------------------------------------------
(* u64 arithmetic and f64 special values                                   *)

Panic(msg) == [kind |-> "panic", msg |-> msg]

\* a - b on u64.  With overflow checks compiled in (the debug profile) an
\* underflow panics; without them (the release profile) it wraps modulo
\* 2^64.  The wrapped value 2^64 - (b - a) is kept as borrow = 1 and the
\* signed low part a - b; a difference that did not wrap has borrow = 0.
sub_u64(a, b, checks) ==
    IF a >= b THEN [kind |-> "ok", borrow |-> 0, low |-> a - b]
    ELSE IF checks THEN Panic("attempt to subtract with overflow")
    ELSE [kind |-> "ok", borrow |-> 1, low |-> a - b]

NaN == [special |-> "NaN"]
PosInf == [special |-> "+inf"]
NegInf == [special |-> "-inf"]
IsSpecial(x) == "special" \in DOMAIN x
IsRat(x) == DOMAIN x = {"n", "d"}

\* (diff as f64 / original as f64) * 100.0 for a u64 difference: exact when
\* the difference did not wrap, and otherwise the huge positive value
\* ((2^64 - deficit) / original) * 100, kept symbolically.
percent_of(diff, original) ==
    IF diff.borrow = 0 THEN Rat(diff.low * 100, original)
    ELSE [wrapped_u64 |-> TRUE, deficit |-> -diff.low, over |-> original]

---------------------------------------------------------------------------
(* engine.rs: CompressionOutput                                            *)

\* CompressionOutput::new
CompressionOutput_new(output_path, original_size, compressed_size, format, checks) ==
    LET diff == sub_u64(original_size, compressed_size, checks)
    IN  IF original_size > 0 /\ diff.kind = "panic" THEN diff
        ELSE [kind |-> "ok",
              output_path |-> output_path,
              original_size |-> original_size,
              compressed_size |-> compressed_size,
              format |-> format,
              savings_percent |->
                  IF original_size > 0 THEN percent_of(diff, original_size)
                  ELSE RatInt(0)]

---------------------------------------------------------------------------
(* stats.rs                                                                *)

SmallMax == 1000000
MediumMax == 5000000

\* get_size_range with the first arm's bound exclusive
get_size_range_exclusive(size_bytes) ==
    IF size_bytes < SmallMax THEN "small"
    ELSE IF size_bytes <= MediumMax THEN "medium"
    ELSE "large"

\* get_size_range
get_size_range(size_bytes) ==
    IF size_bytes \in 0..SmallMax THEN "small"
    ELSE IF size_bytes \in (SmallMax + 1)..MediumMax THEN "medium"
    ELSE "large"

LossyThreshold == 90

\* estimate_compression
estimate_compression(input_format, output_format, original_size, s) ==
    LET i == to_lowercase(input_format)
        o == to_lowercase(output_format)
        pc == CASE i = "png" /\ o = "webp" ->
                       IF s.quality < LossyThreshold
                       THEN <<RatInt(85), Rat(9, 10)>>
                       ELSE <<RatInt(43), Rat(8, 10)>>
                [] i \in {"jpg", "jpeg"} /\ o = "webp" -> <<RatInt(25), Rat(7, 10)>>
                [] i = "png" /\ o = "png" -> <<RatInt(15), Rat(9, 10)>>
                [] i \in {"jpg", "jpeg"} /\ o \in {"jpg", "jpeg"} ->
                       <<RatInt(20), Rat(8, 10)>>
                [] i = "webp" /\ o = "webp" -> <<RatInt(10), Rat(6, 10)>>
                [] OTHER -> <<RatInt(5), Rat(3, 10)>>
        percent == pc[1]
        confidence == pc[2]
    IN  [percent |-> percent,
         ratio |-> RatDiv(RatSub(RatInt(100), percent), RatInt(100)),
         confidence |-> confidence,
         sample_count |-> IF RatLT(Rat(7, 10), confidence) THEN 100 ELSE 10]

\* the sample-count buckets of calculate_confidence, in tenths
base_confidence(sample_count) ==
    IF sample_count = 0 THEN Rat(0, 10)
    ELSE IF sample_count \in 1..5 THEN Rat(3, 10)
    ELSE IF sample_count \in 6..20 THEN Rat(6, 10)
    ELSE IF sample_count \in 21..50 THEN Rat(8, 10)
    ELSE Rat(9, 10)

\* variance > 0.0 (false for NaN)
float_gt_zero(x) ==
    IF IsSpecial(x) THEN x = PosInf
    ELSE IF IsRat(x) THEN x.n > 0
    ELSE TRUE   \* the standard deviation of values that are not all equal

\* calculate_confidence with the variance factor inverted: 1 + variance
calculate_confidence_inverted(sample_count, variance) ==
    LET base == base_confidence(sample_count)
        factor == IF float_gt_zero(variance) /\ IsRat(variance)
                  THEN RatAdd(RatInt(1), variance)
                  ELSE RatInt(1)
    IN  RatMul(base, factor)

\* calculate_confidence.  For a rational variance the result is exact; for
\* +inf the factor 1/(1+inf) is 0; for an irrational standard deviation sd
\* the product base / (1 + sd) is kept symbolically.
calculate_confidence(sample_count, variance) ==
    LET base == base_confidence(sample_count)
    IN  IF ~float_gt_zero(variance) THEN RatMin(RatMul(base, RatInt(1)), RatInt(1))
        ELSE IF variance = PosInf THEN RatInt(0)
        ELSE IF IsRat(variance)
             THEN RatMin(RatMul(base, RatMin(RatDiv(RatInt(1),
                                                    RatAdd(RatInt(1), variance)),
                                             RatInt(1))),
                         RatInt(1))
        ELSE IF base.n = 0 THEN RatInt(0)
        ELSE [base |-> base, over_one_plus |-> variance]

\* create_stat: Ok(stat), or the panic of the subtraction; the timestamp
\* (the wall clock) is left out
create_stat(input_format, output_format, original_size, compressed_size, s, checks) ==
    LET diff == sub_u64(original_size, compressed_size, checks)
    IN  IF original_size > 0 /\ diff.kind = "panic" THEN diff
        ELSE [kind |-> "ok",
              v |-> [id |-> None,
                     input_format |-> input_format,
                     output_format |-> output_format,
                     input_size_range |-> get_size_range(original_size),
                     quality_setting |-> s.quality,
                     lossy_mode |-> s.quality < LossyThreshold,
                     size_reduction_percent |->
                         IF original_size > 0 THEN percent_of(diff, original_size)
                         ELSE RatInt(0),
                     original_size |-> original_size,
                     compressed_size |-> compressed_size,
                     compression_time_ms |-> None,
                     image_type |-> None]]

\* create_stat_with_time: create_stat, then compression_time_ms is set
create_stat_with_time(input_format, output_format, original_size, compressed_size, compression_time_ms, s, checks) ==
    LET stat == create_stat(input_format, output_format, original_size,
                            compressed_size, s, checks)
    IN  IF stat.kind = "panic" THEN stat
        ELSE [kind |-> "ok",
              v |-> [stat.v EXCEPT !.compression_time_ms =
                                       Some(compression_time_ms)]]

\* Display for OutputFormat
to_string(format) ==
    CASE format = "Png" -> "PNG"
      [] format = "Jpeg" -> "JPEG"
      [] format = "WebP" -> "WebP"

\* engine.rs: create_compression_stat, on the fields of a CompressionOutput
create_compression_stat(input_format, output, s, checks) ==
    create_stat(input_format, to_lowercase(to_string(output.format)),
                output.original_size, output.compressed_size, s, checks)

---------------------------------------------------------------------------
(* prediction.rs: CompressionPredictionService                             *)

\* the sample_factor match of CompressionPredictionService::calculate_confidence
sample_factor(sample_count) ==
    IF sample_count \in 0..5 THEN Rat(3, 10)
    ELSE IF sample_count \in 6..20 THEN Rat(6, 10)
    ELSE IF sample_count \in 21..50 THEN Rat(8, 10)
    ELSE RatInt(1)

\* CompressionPredictionService::calculate_confidence
prediction_calculate_confidence(confidence, sample_count) ==
    RatMin(RatMul(confidence, sample_factor(sample_count)), RatInt(1))

\* CompressionPredictionService::estimate_sample_count
estimate_sample_count(input_format, output_format) ==
    CASE <<input_format, output_format>> \in {<<"PNG", "WebP">>, <<"JPEG", "WebP">>} -> 50
      [] <<input_format, output_format>> \in {<<"PNG", "PNG">>, <<"JPEG", "JPEG">>} -> 30
      [] OTHER -> 10

\* adjust_for_size that leaves the base as it is
adjust_for_size_unadjusted(base_reduction, file_size) == base_reduction

\* CompressionPredictionService::adjust_for_size
adjust_for_size(base_reduction, file_size) ==
    CASE get_size_range(file_size) = "small" -> RatMul(base_reduction, Rat(8, 10))
      [] get_size_range(file_size) = "medium" -> base_reduction
      [] get_size_range(file_size) = "large" -> RatMul(base_reduction, Rat(11, 10))

\* a size far above the boundaries
HugeSize == 2000000000

\* original_size as u64 on an i64: a negative value becomes 2^64 - |x|, far
\* above every bucket boundary, kept here as HugeSize
i64_as_u64(x) == IF x < 0 THEN HugeSize ELSE x

\* CompressionPredictionService::predict_compression; avg is what
\* get_average_compression returned
predict_compression(avg, input_format, output_format, original_size) ==
    IF avg.kind = "err" THEN [kind |-> "err", variant |-> "Internal"]
    ELSE
        LET historical_avg == avg.v
            default_reduction ==
                CASE <<input_format, output_format>> = <<"PNG", "WebP">> -> RatInt(70)
                  [] <<input_format, output_format>> = <<"JPEG", "WebP">> -> RatInt(25)
                  [] <<input_format, output_format>> = <<"PNG", "PNG">> -> RatInt(15)
                  [] <<input_format, output_format>> = <<"JPEG", "JPEG">> -> RatInt(20)
                  [] OTHER -> RatInt(10)
            base_reduction == IF historical_avg = RatInt(0) THEN default_reduction
                              ELSE historical_avg
            confidence == IF historical_avg = RatInt(0) THEN Rat(3, 10) ELSE Rat(8, 10)
            percent == adjust_for_size(base_reduction, i64_as_u64(original_size))
            sample_count == estimate_sample_count(input_format, output_format)
        IN  [kind |-> "ok",
             v |-> [percent |-> percent,
                    ratio |-> RatDiv(RatSub(RatInt(100), percent), RatInt(100)),
                    confidence |-> prediction_calculate_confidence(confidence,
                                                                   sample_count),
                    sample_count |-> sample_count]]

---------------------------------------------------------------------------
(* Calls of the pure functions: the initial state draws a call and its     *)
(* inputs, the action applies the function.                                *)

\* byte sizes around the bucket boundaries
Sizes == {0, 1, 1000, 2000, 400000, SmallMax - 1, SmallMax, SmallMax + 1,
          2000000, MediumMax, MediumMax + 1, 10000000}

MaxSampleCount == 52
SampleCounts == 0..MaxSampleCount

Variances == {Rat(-1, 1), Rat(-1, 2), RatInt(0), Rat(1, 10), Rat(1, 2),
              RatInt(1), RatInt(3), RatInt(100), NaN, PosInf, NegInf}

Pending == [kind |-> "pending"]

\* the arguments create_stat and its two wrappers are called with
StatSizes == {0, 400, 1000, 2000000, MediumMax + 1}
StatQualities == {0, 1, 80, 89, 90, 100, 255}
StatTimes == {0, 250}

StatCalls ==
    [fn : {"create_stat"}, original_size : StatSizes,
        compressed_size : StatSizes, quality : StatQualities, result : {Pending}]
    \cup [fn : {"create_stat_with_time"}, original_size : StatSizes,
          compressed_size : StatSizes, quality : StatQualities,
          compression_time_ms : StatTimes, result : {Pending}]
    \cup [fn : {"create_compression_stat"}, original_size : StatSizes,
          compressed_size : StatSizes, quality : StatQualities,
          format : OutputFormat, result : {Pending}]

\* what get_average_compression may return: AVG(size_reduction_percent)
\* of the pair (0 when there is no row), or a database error
Averages ==
    {[kind |-> "ok", v |-> a] : a \in {RatInt(0), RatInt(45), Rat(-25, 2), RatInt(100)}}
    \cup {[kind |-> "err", variant |-> "db"]}
PredictionFormats == {"PNG", "JPEG", "WebP", "png"}
PredictionSizes == {-1, 0, 500000, SmallMax, SmallMax + 1, 2000000, MediumMax, MediumMax + 1, 8000000}

PredictionCalls ==
    [fn : {"prediction::calculate_confidence"}, confidence : {Rat(3, 10), Rat(8, 10)},
        sample_count : SampleCounts, result : {Pending}]
    \cup [fn : {"predict_compression"}, avg : Averages,
          input_format : PredictionFormats, output_format : PredictionFormats,
          original_size : PredictionSizes, result : {Pending}]

PureCalls ==
    StatCalls \cup PredictionCalls \cup
    [fn : {"CompressionOutput::new"}, original_size : Sizes,
        compressed_size : Sizes, result : {Pending}]
    \cup [fn : {"get_size_range"}, size_bytes : Sizes \cup {HugeSize},
          result : {Pending}]
    \cup [fn : {"calculate_confidence"}, sample_count : SampleCounts,
          variance : Variances, result : {Pending}]

CallCompressionOutputNew ==
    /\ ret.fn = "CompressionOutput::new" /\ ret.result = Pending
    /\ ret' = [ret EXCEPT !.result =
                  CompressionOutput_new("out", ret.original_size,
                                        ret.compressed_size, "WebP",
                                        overflow_checks)]
    /\ UNCHANGED <<overflow_checks, settings_vars, engine_vars, store_vars, later_vars>>

CallGetSizeRange ==
    /\ ret.fn = "get_size_range" /\ ret.result = Pending
    /\ ret' = [ret EXCEPT !.result = [kind |-> "ok",
                                      v |-> get_size_range(ret.size_bytes)]]
    /\ UNCHANGED <<overflow_checks, settings_vars, engine_vars, store_vars, later_vars>>

CallCalculateConfidence ==
    /\ ret.fn = "calculate_confidence" /\ ret.result = Pending
    /\ ret' = [ret EXCEPT !.result =
                  [kind |-> "ok",
                   v |-> calculate_confidence(ret.sample_count, ret.variance)]]
    /\ UNCHANGED <<overflow_checks, settings_vars, engine_vars, store_vars, later_vars>>

CallCreateStat ==
    /\ ret.fn = "create_stat" /\ ret.result = Pending
    /\ ret' = [ret EXCEPT !.result =
                  create_stat("png", "webp", ret.original_size,
                              ret.compressed_size,
                              RawSettings(ret.quality, "WebP"), overflow_checks)]
    /\ UNCHANGED <<overflow_checks, settings_vars, engine_vars, store_vars, later_vars>>

CallCreateStatWithTime ==
    /\ ret.fn = "create_stat_with_time" /\ ret.result = Pending
    /\ ret' = [ret EXCEPT !.result =
                  create_stat_with_time("png", "webp", ret.original_size,
                                        ret.compressed_size,
                                        ret.compression_time_ms,
                                        RawSettings(ret.quality, "WebP"),
                                        overflow_checks)]
    /\ UNCHANGED <<overflow_checks, settings_vars, engine_vars, store_vars, later_vars>>

\* create_compression_stat on a CompressionOutput with the given sizes
CallCreateCompressionStat ==
    /\ ret.fn = "create_compression_stat" /\ ret.result = Pending
    /\ ret' = [ret EXCEPT !.result =
                  create_compression_stat(
                      "png",
                      [output_path |-> "out",
                       original_size |-> ret.original_size,
                       compressed_size |-> ret.compressed_size,
                       format |-> ret.format],
                      RawSettings(ret.quality, ret.format), overflow_checks)]
    /\ UNCHANGED <<overflow_checks, settings_vars, engine_vars, store_vars, later_vars>>

\* the result carries the sample_factor local beside the returned value
CallPredictionConfidence ==
    /\ ret.fn = "prediction::calculate_confidence" /\ ret.result = Pending
    /\ ret' = [ret EXCEPT !.result =
                  [kind |-> "ok",
                   v |-> prediction_calculate_confidence(ret.confidence,
                                                         ret.sample_count),
                   sample_factor |-> sample_factor(ret.sample_count)]]
    /\ UNCHANGED <<overflow_checks, settings_vars, engine_vars, store_vars, later_vars>>

CallPredictCompression ==
    /\ ret.fn = "predict_compression" /\ ret.result = Pending
    /\ ret' = [ret EXCEPT !.result =
                  predict_compression(ret.avg, ret.input_format,
                                      ret.output_format, ret.original_size)]
    /\ UNCHANGED <<overflow_checks, settings_vars, engine_vars, store_vars, later_vars>>

NextPure ==
    \/ CallPredictionConfidence
    \/ CallPredictCompression
    \/ CallCompressionOutputNew
    \/ CallGetSizeRange
    \/ CallCalculateConfidence
    \/ CallCreateStat
    \/ CallCreateStatWithTime
    \/ CallCreateCompressionStat

---------------------------------------------------------------------------
(* The file system the engine works on.                                    *)

Absent == [absent |-> TRUE]

InputPaths == {"a.png", "b.jpg", "c.JPG", "d.webp", "e.gif", "locked.gif",
               "noext", "bad.png", "missing.png"}
\* "nodir/out" lies in a directory that does not exist: it cannot be created
OutputPaths == {"out", "nodir/out"}
Paths == InputPaths \cup OutputPaths

\* Path::extension().and_then(|ext| ext.to_str())
extension(path) ==
    CASE path \in {"a.png", "bad.png", "missing.png"} -> Some("png")
      [] path = "b.jpg" -> Some("jpg")
      [] path = "c.JPG" -> Some("JPG")
      [] path = "d.webp" -> Some("webp")
      [] path \in {"e.gif", "locked.gif"} -> Some("gif")
      [] OTHER -> None

InputSize == 1000

Original(codec, path) ==
    [codec |-> codec, size |-> InputSize, enc |-> "original", src |-> path]

\* The files before the first call: every input holds an image of the codec
\* its extension names, except bad.png (bytes no decoder accepts),
\* missing.png (no such file) and noext (a PNG image without extension).
\* locked.gif exists, so its metadata can be read, but its bytes cannot
\* (no read permission).
InitialFiles ==
    [p \in Paths |->
        CASE p = "a.png" -> Original("png", p)
          [] p = "b.jpg" -> Original("jpeg", p)
          [] p = "c.JPG" -> Original("jpeg", p)
          [] p = "d.webp" -> Original("webp", p)
          [] p \in {"e.gif", "locked.gif"} -> Original("gif", p)
          [] p = "noext" -> Original("png", p)
          [] p = "bad.png" -> Original("garbage", p)
          [] OTHER -> Absent]

CanCreate(path) == path # "nodir/out"

\* std::fs::read succeeds on the file
CanRead(path) == path # "locked.gif"

---------------------------------------------------------------------------
(* engine.rs                                                               *)

Ok(v) == [kind |-> "ok", v |-> v]
Err(variant) == [kind |-> "err", variant |-> variant]

\* validate_settings that accepts every quality
validate_settings_skipped(s) == Ok("unit")

\* validate_settings
validate_settings(s) ==
    IF ~is_valid(s) THEN Err("InvalidSettings") ELSE Ok("unit")

\* the outcome of one step: its result, the file operations made, the files
Step(res, eff, fs) == [res |-> res, eff |-> eff, fs |-> fs]

\* image::load_from_memory_with_format(data, codec)
decodes(data, codec) == data.codec = codec

\* the WebP encoder call of compress_to_webp_file, always lossy
webp_encoding_always_lossy(s) == [mode |-> "lossy", quality |-> s.quality]

\* the WebP encoder call of compress_to_webp_file (lines 169-175)
webp_encoding(s) ==
    IF s.quality >= LossyThreshold THEN [mode |-> "lossless"]
    ELSE [mode |-> "lossy", quality |-> s.quality]

NoEncoding == [mode |-> "none"]

\* compress_to_webp_file; env.out_size is the length of the encoder's output
compress_to_webp_file(fs, input_path, output_path, input_format, s, env) ==
    LET e1 == << <<"read", input_path>> >>
        data == fs[input_path]
        f == to_lowercase(input_format)
        codec == CASE f = "png" -> "png"
                   [] f \in {"jpg", "jpeg"} -> "jpeg"
                   [] f = "webp" -> "webp"
                   [] OTHER -> "unsupported"
        enc == webp_encoding(s)
        e2 == Append(e1, <<"write", output_path>>)
    IN  IF data = Absent \/ ~CanRead(input_path) THEN Step(Err("IoError"), e1, fs) @@ [enc |-> NoEncoding]
        ELSE IF codec = "unsupported"
             THEN Step(Err("UnsupportedFormat"), e1, fs) @@ [enc |-> NoEncoding]
        ELSE IF ~decodes(data, codec)
             THEN Step(Err("ProcessingError"), e1, fs) @@ [enc |-> NoEncoding]
        ELSE IF ~CanCreate(output_path)
             THEN Step(Err("IoError"), e2, fs) @@ [enc |-> enc]
        ELSE Step(Ok("unit"), e2,
                  [fs EXCEPT ![output_path] =
                      [codec |-> "webp", size |-> env.out_size,
                       enc |-> enc.mode, src |-> input_path]])
             @@ [enc |-> enc]

\* compress_to_png_file; env.oxipng_ok is whether oxipng accepts a valid
\* PNG it is given, env.late_write_ok whether the write of the optimized
\* re-encoding succeeds
compress_to_png_file(fs, input_path, output_path, input_format, s, env) ==
    LET f == to_lowercase(input_format)
        data == fs[input_path]
        e1 == << <<"read", input_path>> >>
    IN  IF f = "png" THEN
            IF data = Absent \/ ~CanRead(input_path) THEN Step(Err("IoError"), e1, fs)
            ELSE IF decodes(data, "png") /\ env.oxipng_ok THEN
                LET e2 == Append(e1, <<"write", output_path>>)
                IN  IF ~CanCreate(output_path) THEN Step(Err("IoError"), e2, fs)
                    ELSE Step(Ok("unit"), e2,
                              [fs EXCEPT ![output_path] =
                                  [codec |-> "png", size |-> env.out_size,
                                   enc |-> "oxipng", src |-> input_path]])
            ELSE
                LET e2 == Append(e1, <<"copy", input_path, output_path>>)
                IN  IF ~CanCreate(output_path) THEN Step(Err("IoError"), e2, fs)
                    ELSE Step(Ok("unit"), e2, [fs EXCEPT ![output_path] = data])
        ELSE IF f \in {"jpg", "jpeg", "webp"} THEN
            IF data = Absent \/ ~CanRead(input_path) THEN Step(Err("IoError"), e1, fs)
            \* the second match is on input_format as given, not lowercased
            ELSE IF input_format \notin {"jpg", "jpeg", "webp"}
                 THEN Step(Panic("internal error: entered unreachable code"), e1, fs)
            ELSE IF ~decodes(data, IF input_format = "webp" THEN "webp" ELSE "jpeg")
                 THEN Step(Err("ProcessingError"), e1, fs)
            ELSE
                LET e2 == Append(e1, <<"create", output_path>>)
                    plain == [codec |-> "png", size |-> env.out_size,
                              enc |-> "png-encoder", src |-> input_path]
                    fs2 == [fs EXCEPT ![output_path] = plain]
                    e3 == Append(Append(e2, <<"write", output_path>>),
                                 <<"read", output_path>>)
                IN  IF ~CanCreate(output_path) THEN Step(Err("IoError"), e2, fs)
                    ELSE IF ~env.oxipng_ok THEN Step(Ok("unit"), e3, fs2)
                    ELSE IF ~env.late_write_ok
                         THEN Step(Ok("unit"), Append(e3, <<"write", output_path>>), fs2)
                    ELSE Step(Ok("unit"), Append(e3, <<"write", output_path>>),
                              [fs EXCEPT ![output_path] =
                                  [plain EXCEPT !.enc = "png-encoder+oxipng"]])
        ELSE Step(Err("UnsupportedFormat"), <<>>, fs)

\* compress_to_jpeg_file
compress_to_jpeg_file(fs, input_path, output_path, input_format, s, env) ==
    LET e1 == << <<"read", input_path>> >>
        data == fs[input_path]
        f == to_lowercase(input_format)
        codec == CASE f = "png" -> "png"
                   [] f \in {"jpg", "jpeg"} -> "jpeg"
                   [] f = "webp" -> "webp"
                   [] OTHER -> "unsupported"
        e2 == Append(e1, <<"create", output_path>>)
    IN  IF data = Absent \/ ~CanRead(input_path) THEN Step(Err("IoError"), e1, fs)
        ELSE IF codec = "unsupported" THEN Step(Err("UnsupportedFormat"), e1, fs)
        ELSE IF ~decodes(data, codec) THEN Step(Err("ProcessingError"), e1, fs)
        ELSE IF ~CanCreate(output_path) THEN Step(Err("IoError"), e2, fs)
        ELSE Step(Ok("unit"), Append(e2, <<"write", output_path>>),
                  [fs EXCEPT ![output_path] =
                      [codec |-> "jpeg", size |-> env.out_size,
                       enc |-> "jpeg-encoder", src |-> input_path]])

\* the match on settings.format of compress_file_to_file (lines 65-73)
dispatch(fs, input_path, output_path, input_format, s, env) ==
    CASE s.format = "WebP" ->
             compress_to_webp_file(fs, input_path, output_path, input_format, s, env)
      [] s.format = "Png" ->
             compress_to_png_file(fs, input_path, output_path, input_format, s, env)
             @@ [enc |-> NoEncoding]
      [] s.format = "Jpeg" ->
             compress_to_jpeg_file(fs, input_path, output_path, input_format, s, env)
             @@ [enc |-> NoEncoding]

\* compress_file_to_file
compress_file_to_file(fs, input_path, output_path, s, env, checks) ==
    LET valid == validate_settings(s)
        m1 == << <<"metadata", input_path>> >>
        ext == extension(input_path)
    IN  IF valid.kind = "err" THEN Step(valid, <<>>, fs) @@ [enc |-> NoEncoding]
        ELSE IF fs[input_path] = Absent
             THEN Step(Err("IoError"), m1, fs) @@ [enc |-> NoEncoding]
        ELSE IF ~ext.some
             THEN Step(Err("UnsupportedFormat"), m1, fs) @@ [enc |-> NoEncoding]
        ELSE
            LET d == dispatch(fs, input_path, output_path, ext.v, s, env)
                eff == m1 \o d.eff
            IN  IF d.res.kind # "ok" THEN [d EXCEPT !.eff = eff]
                ELSE [d EXCEPT
                        !.eff = Append(eff, <<"metadata", output_path>>),
                        !.res = CompressionOutput_new(
                                    output_path, fs[input_path].size,
                                    d.fs[output_path].size, s.format, checks)]

QualitySamples == {0, 1, 89, 90, 100, 101}

\* what the codecs and the disk may do during one call: the length of the
\* encoder's output and, for a PNG target, the outcome of the oxipng pass
\* and of the write that follows it
OutSizes == {400, 1600}

Envs(format) ==
    IF format = "Png"
    THEN {e \in [out_size : OutSizes, oxipng_ok : BOOLEAN,
                 late_write_ok : BOOLEAN] : ~e.oxipng_ok => e.late_write_ok}
    ELSE [out_size : OutSizes, oxipng_ok : {TRUE}, late_write_ok : {TRUE}]

NoCall == [fn |-> "none"]

\* one call of compress_file_to_file, made when no call is in progress
CompressFileToFile(input_path, output_path, quality, format, out_size, oxipng_ok, late_write_ok) ==
    LET s == RawSettings(quality, format)
        env == [out_size |-> out_size, oxipng_ok |-> oxipng_ok,
                late_write_ok |-> late_write_ok]
        r == compress_file_to_file(files, input_path, output_path, s, env,
                                   overflow_checks)
    IN  /\ engine_call = NoCall
        /\ env \in Envs(format)
        /\ files' = r.fs
        /\ engine_call' = [fn |-> "compress_file_to_file",
                           input_path |-> input_path,
                           output_path |-> output_path,
                           settings |-> s,
                           files_changed |-> r.fs # files,
                           result |-> r.res,
                           effects |-> r.eff,
                           encoder |-> r.enc,
                           env |-> [oxipng_ok |-> env.oxipng_ok,
                                    late_write_ok |-> env.late_write_ok]]
        /\ UNCHANGED <<overflow_checks, ret, settings_vars, store_vars, later_vars>>

\* the caller takes the result; the next call may start
EngineReturn ==
    /\ engine_call # NoCall
    /\ engine_call' = NoCall
    /\ UNCHANGED <<files, overflow_checks, ret, settings_vars, store_vars, later_vars>>

NextEngine ==
    \/ \E i \in InputPaths, o \in OutputPaths, q \in QualitySamples,
          f \in OutputFormat, out_size \in OutSizes,
          oxipng_ok \in BOOLEAN, late_write_ok \in BOOLEAN :
           CompressFileToFile(i, o, q, f, out_size, oxipng_ok, late_write_ok)
    \/ EngineReturn

---------------------------------------------------------------------------
(* store.rs: SqliteStatsStore                                              *)

MaxRows == 3
MaxId == 4

RECURSIVE SumPercent(_)
SumPercent(rs) ==
    IF rs = <<>> THEN RatInt(0)
    ELSE RatAdd(Head(rs).size_reduction_percent, SumPercent(Tail(rs)))

\* AVG(size_reduction_percent): NULL over no rows
sql_avg(rs) ==
    IF rs = <<>> THEN None ELSE Some(RatDiv(SumPercent(rs), RatInt(Len(rs))))

\* STDEV(size_reduction_percent), where the library resolves it.  It is 0
\* (or NULL, which the caller turns into 0.0) when fewer than two rows match
\* or all values are equal, and otherwise a positive, in general irrational,
\* number, kept as the values it is the standard deviation of.
sql_stdev(rs) ==
    LET vals == {rs[k].size_reduction_percent : k \in 1..Len(rs)}
    IN  IF Cardinality(vals) <= 1 THEN Some(RatInt(0))
        ELSE Some([stdev_of |->
                      [v \in vals |->
                          Cardinality({k \in 1..Len(rs) :
                                          rs[k].size_reduction_percent = v})]])

\* the WHERE clause of get_estimation, with min_quality and max_quality
\* (lines 121-131)
matches(row, query) ==
    LET quality_range == 10
        min_quality == IF query.quality_setting - quality_range > 1
                       THEN query.quality_setting - quality_range ELSE 1
        max_quality == IF query.quality_setting + quality_range < 100
                       THEN query.quality_setting + quality_range ELSE 100
    IN  /\ row.input_format = query.input_format
        /\ row.output_format = query.output_format
        /\ min_quality <= row.quality_setting
        /\ row.quality_setting <= max_quality
        /\ row.lossy_mode = query.lossy_mode

Matching(table, query) == SelectSeq(table, LAMBDA row : matches(row, query))

\* get_estimation.  stdev is whether preparing the statement succeeds (the
\* statement names the aggregate STDEV), db_ok whether running it does.
get_estimation(table, query, stdev, db_ok) ==
    IF ~stdev \/ ~db_ok THEN Err("DatabaseError")
    ELSE
        LET m == Matching(table, query)
            avg_reduction == sql_avg(m)
            count == Len(m)
            variance == sql_stdev(m)
        IN  IF avg_reduction.some THEN
                Ok([percent |-> avg_reduction.v,
                    ratio |-> RatDiv(RatSub(RatInt(100), avg_reduction.v),
                                     RatInt(100)),
                    confidence |-> calculate_confidence(count,
                                                        unwrap_or(variance, RatInt(0))),
                    sample_count |-> count])
            ELSE
                Ok(estimate_compression(
                       query.input_format, query.output_format, query.original_size,
                       new(query.quality_setting,
                           unwrap_or(from_string(query.output_format), "WebP"))))

\* the rows after clear_all, with the DELETE left out
clear_all_keeps_rows(table) == table

\* the rows after clear_all: DELETE FROM compression_stats
clear_all(table) == <<>>

\* count_stats: SELECT COUNT(*)
count_stats(table) == Len(table)

\* the compressions whose stats the model saves, as <<original_size,
\* compressed_size, quality>> of three PNG to WebP compressions: 60% at
\* quality 80, 40% at quality 75, and a medium file, 50% at the lossless
\* quality 95
StatInputs ==
    { <<1000, 400, 80>>, <<1000, 600, 75>>, <<2000000, 1000000, 95>> }

\* the measured compression_time_ms compress_image records with a stat
TimedMs == 250

\* the fields of the EstimationQuery values the model asks with
QueryInputFormats == {"png", "PNG", "jpg"}
QueryOutputFormats == {"webp", "png"}
QuerySizes == {1000, 2000000}
QueryQualities == {0, 70, 90, 255}

NoStoreCall == [op |-> "none"]

---------------------------------------------------------------------------
(* progress.rs: ProgressEstimationService                                  *)

\* ((input_format, output_format, size_range), duration_ms), in table order
DEFAULT_COMPRESSION_TIMES ==
    << <<"png", "webp", "small", 300>>, <<"png", "webp", "medium", 1200>>,
       <<"png", "webp", "large", 3000>>,
       <<"png", "png", "small", 800>>, <<"png", "png", "medium", 2500>>,
       <<"png", "png", "large", 6000>>,
       <<"jpeg", "webp", "small", 200>>, <<"jpeg", "webp", "medium", 800>>,
       <<"jpeg", "webp", "large", 2000>>,
       <<"jpeg", "jpeg", "small", 150>>, <<"jpeg", "jpeg", "medium", 500>>,
       <<"jpeg", "jpeg", "large", 1200>>,
       <<"webp", "webp", "small", 250>>, <<"webp", "webp", "medium", 900>>,
       <<"webp", "webp", "large", 2200>> >>

\* normalize_format without the to_lowercase
normalize_format_case_sensitive(format) ==
    IF format = "jpg" THEN "jpeg" ELSE format

\* normalize_format
normalize_format(format) ==
    LET lower == to_lowercase(format)
    IN  IF lower = "jpg" THEN "jpeg" ELSE lower

\* get_time_estimation_from_db: the store is not consulted
get_time_estimation_from_db(table, query, db_ok) == Ok(None)

\* the lossless adjustment left out
times_1_25_unscaled(default_time) == default_time

\* (default_time as f64 * 1.25) as u64
times_1_25(default_time) == (default_time * 125) \div 100

\* the 0.4 of get_fallback_estimation with another confidence
get_fallback_estimation_confident(query) ==
    [estimated_duration_ms |-> 1000, confidence |-> Rat(9, 10), sample_count |-> 0]

\* get_fallback_estimation
get_fallback_estimation(query) ==
    LET size_range == get_size_range(query.original_size)
        input_fmt == normalize_format(query.input_format)
        output_fmt == normalize_format(query.output_format)
        hits == {k \in 1..Len(DEFAULT_COMPRESSION_TIMES) :
                    /\ DEFAULT_COMPRESSION_TIMES[k][1] = input_fmt
                    /\ DEFAULT_COMPRESSION_TIMES[k][2] = output_fmt
                    /\ DEFAULT_COMPRESSION_TIMES[k][3] = size_range}
        found == IF hits = {} THEN None
                 ELSE Some(DEFAULT_COMPRESSION_TIMES[
                               CHOOSE k \in hits : \A j \in hits : k <= j][4])
        default_time == IF found.some THEN found.v
                        ELSE CASE size_range = "small" -> 300
                               [] size_range = "medium" -> 1000
                               [] size_range = "large" -> 2500
                               [] OTHER -> 1000
        adjusted == IF output_fmt = "webp" /\ input_fmt # "webp" /\ ~query.lossy_mode
                    THEN times_1_25(default_time)
                    ELSE default_time
    IN  [estimated_duration_ms |-> adjusted,
         confidence |-> Rat(4, 10),
         sample_count |-> 0]

\* estimate_duration; table and db_ok are the store behind the service
estimate_duration(table, query, db_ok) ==
    LET from_db == get_time_estimation_from_db(table, query, db_ok)
    IN  IF from_db.kind = "ok" /\ from_db.v.some THEN Ok(from_db.v.v)
        ELSE Ok(get_fallback_estimation(query))

DurationInputFormats == {"png", "JPG", "jpeg", "webp", "gif"}
DurationOutputFormats == {"webp", "WEBP", "png", "jpeg"}
DurationSizes == {1000, 2000000, MediumMax + 1}

\* save_stat: one INSERT, then last_insert_rowid(); the stat comes from
\* create_stat (record_compression_stat) or create_stat_with_time
\* (compress_image)
SaveStat(original_size, compressed_size, quality, timed, db_ok) ==
    LET stat == IF timed
                THEN create_stat_with_time("png", "webp", original_size,
                                           compressed_size, TimedMs,
                                           new(quality, "WebP"), FALSE).v
                ELSE create_stat("png", "webp", original_size, compressed_size,
                                 new(quality, "WebP"), FALSE).v
    IN
    /\ store_call = NoStoreCall
    /\ Len(rows) < MaxRows
    /\ next_id <= MaxId
    /\ IF db_ok
       THEN /\ rows' = Append(rows, [stat EXCEPT !.id = Some(next_id)])
            /\ next_id' = next_id + 1
            /\ saved' = saved + 1
            /\ store_call' = [op |-> "save_stat", db_ok |-> db_ok,
                              result |-> Ok(next_id)]
       ELSE /\ UNCHANGED <<rows, next_id, saved>>
            /\ store_call' = [op |-> "save_stat", db_ok |-> db_ok,
                              result |-> Err("DatabaseError")]
    /\ UNCHANGED <<stdev_resolves, settings_vars, pure_vars, engine_vars, later_vars>>

GetEstimation(input_format, output_format, original_size, quality_setting, lossy_mode, db_ok) ==
    LET query == [input_format |-> input_format,
                  output_format |-> output_format,
                  original_size |-> original_size,
                  quality_setting |-> quality_setting,
                  lossy_mode |-> lossy_mode]
    IN
    /\ store_call = NoStoreCall
    /\ store_call' = [op |-> "get_estimation", db_ok |-> db_ok, query |-> query,
                      result |-> get_estimation(rows, query, stdev_resolves, db_ok)]
    /\ UNCHANGED <<rows, next_id, saved, stdev_resolves>>
    /\ UNCHANGED <<settings_vars, pure_vars, engine_vars, later_vars>>

\* ProgressEstimationService::new(&store).estimate_duration(&query)
EstimateDuration(input_format, output_format, original_size, lossy_mode, db_ok) ==
    LET query == [input_format |-> input_format,
                  output_format |-> output_format,
                  original_size |-> original_size,
                  quality_setting |-> 80,
                  lossy_mode |-> lossy_mode]
    IN
    /\ store_call = NoStoreCall
    /\ store_call' = [op |-> "estimate_duration", db_ok |-> db_ok, query |-> query,
                      result |-> estimate_duration(rows, query, db_ok)]
    /\ UNCHANGED <<rows, next_id, saved, stdev_resolves>>
    /\ UNCHANGED <<settings_vars, pure_vars, engine_vars, later_vars>>

ClearAll(db_ok) ==
    /\ store_call = NoStoreCall
    /\ IF db_ok
       THEN /\ rows' = clear_all(rows)
            /\ saved' = 0
            /\ store_call' = [op |-> "clear_all", db_ok |-> db_ok,
                              result |-> Ok("unit")]
       ELSE /\ UNCHANGED <<rows, saved>>
            /\ store_call' = [op |-> "clear_all", db_ok |-> db_ok,
                              result |-> Err("DatabaseError")]
    /\ UNCHANGED <<next_id, stdev_resolves, settings_vars, pure_vars, engine_vars, later_vars>>

CountStats(db_ok) ==
    /\ store_call = NoStoreCall
    /\ store_call' = [op |-> "count_stats", db_ok |-> db_ok,
                      result |-> IF db_ok THEN Ok(count_stats(rows))
                                 ELSE Err("DatabaseError")]
    /\ UNCHANGED <<rows, next_id, saved, stdev_resolves>>
    /\ UNCHANGED <<settings_vars, pure_vars, engine_vars, later_vars>>

\* the caller takes the result; the next call may start
StoreReturn ==
    /\ store_call # NoStoreCall
    /\ store_call' = NoStoreCall
    /\ UNCHANGED <<rows, next_id, saved, stdev_resolves>>
    /\ UNCHANGED <<settings_vars, pure_vars, engine_vars, later_vars>>

\* the store as commands/stats.rs uses it: record_compression_stat saves
\* stats made by create_stat
NextStore ==
    \/ \E c \in StatInputs, db_ok \in BOOLEAN :
           SaveStat(c[1], c[2], c[3], FALSE, db_ok)
    \/ \E input_format \in QueryInputFormats, output_format \in QueryOutputFormats,
          original_size \in QuerySizes, quality_setting \in QueryQualities,
          lossy_mode \in BOOLEAN, db_ok \in BOOLEAN :
           GetEstimation(input_format, output_format, original_size,
                         quality_setting, lossy_mode, db_ok)
    \/ \E db_ok \in BOOLEAN : ClearAll(db_ok)
    \/ \E db_ok \in BOOLEAN : CountStats(db_ok)
    \/ StoreReturn

\* the store as the progress estimation sees it: stats with and without
\* compression_time_ms are saved, and estimate_duration is asked
NextEstimator ==
    \/ \E c \in StatInputs, timed \in BOOLEAN, db_ok \in BOOLEAN :
           /\ timed => c[3] = 80
           /\ SaveStat(c[1], c[2], c[3], timed, db_ok)
    \/ \E input_format \in DurationInputFormats,
          output_format \in DurationOutputFormats,
          original_size \in DurationSizes, lossy_mode \in BOOLEAN,
          db_ok \in BOOLEAN :
           EstimateDuration(input_format, output_format, original_size,
                            lossy_mode, db_ok)
    \/ StoreReturn

---------------------------------------------------------------------------
(* compression_service.rs and infrastructure/compression: the registry of  *)
(* per-format compressors.  Image data is the codec its bytes hold.        *)

Compressors == {"WebpCompressor", "OxipngCompressor", "JpegCompressor"}

\* the format each compressor is written for
OwnFormat(c) ==
    CASE c = "WebpCompressor" -> "WebP"
      [] c = "OxipngCompressor" -> "Png"
      [] c = "JpegCompressor" -> "Jpeg"

\* ImageCompressor::supports_format
supports_format(c, format) == format = OwnFormat(c)

\* compression_service.rs: CompressionOutput::new(original_data,
\* compressed_data), on the two lengths
ServiceOutput_new(original_size, compressed_size, checks) ==
    LET diff == sub_u64(original_size, compressed_size, checks)
    IN  IF original_size > 0 /\ diff.kind = "panic" THEN diff
        ELSE Ok([original_size |-> original_size,
                 compressed_size |-> compressed_size,
                 savings_percent |->
                     IF original_size > 0 THEN percent_of(diff, original_size)
                     ELSE RatInt(0)])

\* the result of a compressor call and whether it handed the data to a codec
Ran(res, decoded) == [res |-> res, decoded |-> decoded]

\* ImageCompressor::compress with the check of settings.format left out
compress_any_format(c, data, s, out_size, checks) ==
    IF c # "OxipngCompressor" /\ data \notin {"png", "jpeg", "webp"}
    THEN Ran(Err("InvalidImageData"), TRUE)
    ELSE IF c = "OxipngCompressor" /\ data # "png"
    THEN Ran(Err("CompressionFailed"), TRUE)
    ELSE Ran(ServiceOutput_new(InputSize, out_size, checks), TRUE)

\* ImageCompressor::compress of WebpCompressor, OxipngCompressor and
\* JpegCompressor: the format check, then image::load_from_memory (or
\* oxipng::optimize_from_memory), the encoder and CompressionOutput::new
compress(c, data, s, out_size, checks) ==
    IF s.format # OwnFormat(c) THEN Ran(Err("UnsupportedFormat"), FALSE)
    ELSE IF c # "OxipngCompressor" /\ data \notin {"png", "jpeg", "webp"}
    THEN Ran(Err("InvalidImageData"), TRUE)
    ELSE IF c = "OxipngCompressor" /\ data # "png"
    THEN Ran(Err("CompressionFailed"), TRUE)
    ELSE Ran(ServiceOutput_new(InputSize, out_size, checks), TRUE)

\* CompressionService::new: an empty map
NoCompressors == [f \in OutputFormat |-> "none"]

\* CompressionService::register_compressor: HashMap::insert
register_compressor(map, format, c) == [map EXCEPT ![format] = c]

\* CompressionService::compress_image: the result, and the compressors whose
\* compress was called
compress_image(map, data, s, out_size, checks) ==
    LET compressor == map[s.format]
    IN  IF compressor = "none"
        THEN [res |-> Err("UnsupportedFormat"), decoded |-> FALSE, invoked |-> <<>>]
        ELSE IF ~supports_format(compressor, s.format)
        THEN [res |-> Err("UnsupportedFormat"), decoded |-> FALSE, invoked |-> <<>>]
        ELSE compress(compressor, data, s, out_size, checks)
                 @@ [invoked |-> <<compressor>>]

\* the bytes handed to the service: an image of one of the codecs, or none
ImageData == {"png", "jpeg", "webp", "garbage"}

ServiceQualities == {80, 95}

NoServiceCall == [fn |-> "none"]

RegisterCompressor(format, c) ==
    /\ service_call = NoServiceCall
    /\ compressors' = register_compressor(compressors, format, c)
    /\ service_call' = [fn |-> "register_compressor", format |-> format,
                        compressor |-> c]
    /\ UNCHANGED <<settings_vars, pure_vars, engine_vars, store_vars, after_service_vars>>

\* a call of compress on one compressor, as through the trait
Compress(c, data, quality, format, out_size) ==
    LET r == compress(c, data, RawSettings(quality, format), out_size,
                      overflow_checks)
    IN  /\ service_call = NoServiceCall
        /\ service_call' = [fn |-> "compress", compressor |-> c, data |-> data,
                            quality |-> quality, format |-> format,
                            out_size |-> out_size,
                            result |-> r.res, decoded |-> r.decoded]
        /\ UNCHANGED <<compressors, settings_vars, pure_vars, engine_vars,
                       store_vars, after_service_vars>>

SupportsFormat(c, format) ==
    /\ service_call = NoServiceCall
    /\ service_call' = [fn |-> "supports_format", compressor |-> c,
                        format |-> format,
                        result |-> supports_format(c, format)]
    /\ UNCHANGED <<compressors, settings_vars, pure_vars, engine_vars, store_vars, after_service_vars>>

CompressImage(data, quality, format, out_size) ==
    LET r == compress_image(compressors, data, RawSettings(quality, format),
                            out_size, overflow_checks)
    IN  /\ service_call = NoServiceCall
        /\ service_call' = [fn |-> "compress_image", data |-> data,
                            quality |-> quality, format |-> format,
                            out_size |-> out_size,
                            result |-> r.res, decoded |-> r.decoded,
                            invoked |-> r.invoked]
        /\ UNCHANGED <<compressors, settings_vars, pure_vars, engine_vars,
                       store_vars, after_service_vars>>

\* the caller takes the result
ServiceReturn ==
    /\ service_call # NoServiceCall
    /\ service_call' = NoServiceCall
    /\ UNCHANGED <<compressors, settings_vars, pure_vars, engine_vars, store_vars, after_service_vars>>

NextService ==
    \/ \E f \in OutputFormat, c \in Compressors : RegisterCompressor(f, c)
    \/ \E c \in Compressors, data \in ImageData, q \in ServiceQualities,
          f \in OutputFormat, out_size \in OutSizes :
           Compress(c, data, q, f, out_size)
    \/ \E c \in Compressors, f \in OutputFormat : SupportsFormat(c, f)
    \/ \E data \in ImageData, q \in ServiceQualities, f \in OutputFormat,
          out_size \in OutSizes : CompressImage(data, q, f, out_size)
    \/ ServiceReturn

---------------------------------------------------------------------------
(* progress.rs: ProgressConfig and ProgressCalculator                      *)

\* f64 comparison: false as soon as one side is NaN
f64_le(a, b) ==
    IF a = NaN \/ b = NaN THEN FALSE
    ELSE IF a = NegInf \/ b = PosInf THEN TRUE
    ELSE IF a = PosInf \/ b = NegInf THEN FALSE
    ELSE RatLE(a, b)

f64_lt(a, b) == f64_le(a, b) /\ a # b

\* f64::min: the other operand when one is NaN
f64_min(a, b) ==
    IF a = NaN THEN b
    ELSE IF b = NaN THEN a
    ELSE IF f64_le(a, b) THEN a ELSE b

\* f64 multiplication: 0 * inf is NaN, otherwise the signs decide
f64_mul(a, b) ==
    LET sign(x) == IF x = PosInf THEN 1
                   ELSE IF x = NegInf THEN -1
                   ELSE IF x.n > 0 THEN 1 ELSE IF x.n < 0 THEN -1 ELSE 0
    IN  IF a = NaN \/ b = NaN THEN NaN
        ELSE IF IsSpecial(a) \/ IsSpecial(b)
             THEN CASE sign(a) * sign(b) = 0 -> NaN
                    [] sign(a) * sign(b) = 1 -> PosInf
                    [] OTHER -> NegInf
        ELSE RatMul(a, b)

\* f64 division by a finite positive constant
f64_div(a, k) == IF IsSpecial(a) THEN a ELSE RatDiv(a, k)

EasingFunction == {"Linear", "EaseOut", "Bezier"}

\* ProgressCalculator::apply_easing
apply_easing(easing_function, ratio) ==
    LET rest == RatSub(RatInt(1), ratio)
    IN  CASE easing_function = "Linear" -> ratio
          [] easing_function = "EaseOut" ->
                 RatSub(RatInt(1), RatMul(rest, RatMul(rest, rest)))
          [] easing_function = "Bezier" ->
                 RatSub(RatInt(1), RatMul(rest, rest))

\* current_progress without the .min(1.0) on the ratio
current_progress_unclamped(config, elapsed) ==
    LET progress_ratio == IF config.estimated_duration_ms > 0
                          THEN Rat(elapsed, config.estimated_duration_ms)
                          ELSE RatInt(0)
        eased_ratio == apply_easing(config.easing_function, progress_ratio)
        capped_progress ==
            f64_mul(eased_ratio, f64_div(config.completion_threshold, RatInt(100)))
    IN  f64_min(f64_mul(capped_progress, RatInt(100)), config.completion_threshold)

\* ProgressCalculator::current_progress at elapsed milliseconds
current_progress(config, elapsed) ==
    LET progress_ratio == IF config.estimated_duration_ms > 0
                          THEN RatMin(Rat(elapsed, config.estimated_duration_ms),
                                      RatInt(1))
                          ELSE RatInt(0)
        eased_ratio == apply_easing(config.easing_function, progress_ratio)
        capped_progress ==
            f64_mul(eased_ratio, f64_div(config.completion_threshold, RatInt(100)))
    IN  f64_min(f64_mul(capped_progress, RatInt(100)), config.completion_threshold)

\* ProgressCalculator::should_continue_updates
should_continue_updates(config, elapsed) ==
    f64_lt(current_progress(config, elapsed), config.completion_threshold)

MaxElapsed == 6
Durations == {0, 1, 3, 4}
\* completion thresholds: finite ones as numerator over 2, and special values
Thresholds ==
    {<<"finite", h>> : h \in {-20, 0, 95, 184, 190, 200}} \cup {<<"NaN", 0>>, <<"+inf", 0>>}

\* the f64 a threshold token stands for
threshold_value(t) == IF t[1] = "finite" THEN Rat(t[2], 2) ELSE [special |-> t[1]]

NoCalculator == [some |-> FALSE]
NoProgressCall == [fn |-> "none"]

\* the configs a calculator is built with
ProgressConfigs ==
    {[estimated_duration_ms |-> d, easing_function |-> e,
      completion_threshold |-> threshold_value(t)] :
         d \in Durations, e \in EasingFunction, t \in Thresholds}

\* should_continue_updates on every config and every reading of the clock,
\* computed once
should_continue_updates_memo ==
    [config \in ProgressConfigs |->
        [elapsed \in 0..MaxElapsed |-> should_continue_updates(config, elapsed)]]

\* ProgressCalculator::new
NewCalculator(estimated_duration_ms, easing_function, threshold) ==
    /\ ~calculator.some
    /\ calculator' = [some |-> TRUE, config |->
                         [estimated_duration_ms |-> estimated_duration_ms,
                          easing_function |-> easing_function,
                          completion_threshold |-> threshold_value(threshold)]]
    /\ elapsed_ms' = 0
    /\ UNCHANGED <<progress_call, prev_progress>>
    /\ UNCHANGED <<settings_vars, pure_vars, engine_vars, store_vars, service_vars, after_progress_vars>>

\* the clock: start_time.elapsed() grows
Tick(ms) ==
    /\ calculator.some
    /\ elapsed_ms + ms <= MaxElapsed
    /\ elapsed_ms' = elapsed_ms + ms
    /\ UNCHANGED <<calculator, progress_call, prev_progress>>
    /\ UNCHANGED <<settings_vars, pure_vars, engine_vars, store_vars, service_vars, after_progress_vars>>

\* a call of current_progress
CurrentProgress ==
    /\ calculator.some
    /\ progress_call' = [fn |-> "current_progress", elapsed |-> elapsed_ms,
                         v |-> current_progress(calculator.config, elapsed_ms)]
    /\ prev_progress' = IF progress_call.fn = "current_progress"
                        THEN Some([elapsed |-> progress_call.elapsed,
                                   v |-> progress_call.v])
                        ELSE prev_progress
    /\ UNCHANGED <<calculator, elapsed_ms>>
    /\ UNCHANGED <<settings_vars, pure_vars, engine_vars, store_vars, service_vars, after_progress_vars>>

\* a call of should_continue_updates
ShouldContinueUpdates ==
    /\ calculator.some
    /\ progress_call' = [fn |-> "should_continue_updates", elapsed |-> elapsed_ms,
                         continue |-> should_continue_updates_memo[calculator.config][elapsed_ms]]
    /\ prev_progress' = IF progress_call.fn = "current_progress"
                        THEN Some([elapsed |-> progress_call.elapsed,
                                   v |-> progress_call.v])
                        ELSE prev_progress
    /\ UNCHANGED <<calculator, elapsed_ms>>
    /\ UNCHANGED <<settings_vars, pure_vars, engine_vars, store_vars, service_vars, after_progress_vars>>

NextProgress ==
    \/ \E d \in Durations, e \in EasingFunction, t \in Thresholds :
           NewCalculator(d, e, t)
    \/ \E ms \in 1..2 : Tick(ms)
    \/ CurrentProgress
    \/ ShouldContinueUpdates

---------------------------------------------------------------------------
(* commands/compression.rs: compress_image and compress_batch              *)

\* validate_image_file: the file exists and its lowercased extension is one
\* of jpg, jpeg, png, webp
validate_image_file(fs, path) ==
    /\ fs[path] # Absent
    /\ extension(path).some
    /\ to_lowercase(extension(path).v) \in {"jpg", "jpeg", "png", "webp"}

\* the command compress_image with quality None, a format token naming the
\* target and output_path "out" (not a directory, so used as given): the
\* stages it emits, the files it leaves, the stat it records, its response
command_compress_image(fs, file_path, format, out_size, checks) ==
    LET s == new(80, format)
        env == [out_size |-> out_size, oxipng_ok |-> TRUE, late_write_ok |-> TRUE]
        r == compress_file_to_file(fs, file_path, "out", s, env, checks)
        output_extension == CASE format = "WebP" -> "webp"
                              [] format = "Png" -> "png"
                              [] format = "Jpeg" -> "jpg"
        stat == create_stat_with_time(to_lowercase(extension(file_path).v),
                                      output_extension, r.res.original_size,
                                      r.res.compressed_size, TimedMs, s, checks)
    IN  IF ~validate_image_file(fs, file_path)
        THEN [kind |-> "ok", success |-> FALSE, fs |-> fs, stat |-> None,
              stages |-> <<"Started", "Error">>]
        ELSE IF r.res.kind = "panic"
        THEN [kind |-> "panic", fs |-> r.fs, stat |-> None,
              stages |-> <<"Started", "Processing">>]
        ELSE IF r.res.kind = "err"
        THEN [kind |-> "ok", success |-> FALSE, fs |-> r.fs, stat |-> None,
              stages |-> <<"Started", "Processing", "Error">>]
        ELSE IF stat.kind = "panic"
        THEN [kind |-> "panic", fs |-> r.fs, stat |-> None,
              stages |-> <<"Started", "Processing", "Completed">>]
        ELSE [kind |-> "ok", success |-> TRUE, fs |-> r.fs, stat |-> Some(stat.v),
              stages |-> <<"Started", "Processing", "Completed">>]

\* a response whose success waits for the stat to be saved
response_success_after_save(engine_ok, stat_saved) == engine_ok /\ stat_saved

\* CompressImageResponse.success: true in the Ok arm of the match on
\* compress_file_to_file, whatever became of the stat
response_success(engine_ok, stat_saved) == engine_ok

MaxBatch == 2
BatchPaths == {"a.png", "c.JPG", "bad.png", "missing.png", "e.gif"}

NoBatch == [pc |-> "request", file_paths |-> <<>>]

\* the caller builds CompressBatchRequest.file_paths
AddFilePath(path) ==
    /\ batch.pc = "request"
    /\ Len(batch.file_paths) < MaxBatch
    /\ batch' = [batch EXCEPT !.file_paths = Append(@, path)]
    /\ UNCHANGED <<events, files, rows, next_id, saved>>
    /\ UNCHANGED <<settings_vars, pure_vars, engine_call, stdev_resolves, store_call, service_vars, progress_vars, after_batch_vars>>

\* compress_batch is invoked: the locals before the loop
CompressBatch(format) ==
    /\ batch.pc = "request"
    /\ batch' = [pc |-> "loop",
                 file_paths |-> batch.file_paths,
                 format |-> format,
                 total_files |-> Len(batch.file_paths),
                 index |-> 0,
                 results |-> <<>>,
                 successful |-> 0,
                 failed |-> 0]
    /\ UNCHANGED <<events, files, rows, next_id, saved>>
    /\ UNCHANGED <<settings_vars, pure_vars, engine_call, stdev_resolves, store_call, service_vars, progress_vars, after_batch_vars>>

\* the head of one iteration: the batch-progress event
BatchEmitProgress ==
    /\ batch.pc = "loop"
    /\ batch.index < batch.total_files
    /\ events' = Append(events, <<"batch-progress", batch.index + 1, batch.total_files>>)
    /\ batch' = [batch EXCEPT !.pc = "compress"]
    /\ UNCHANGED <<files, rows, next_id, saved>>
    /\ UNCHANGED <<settings_vars, pure_vars, engine_call, stdev_resolves, store_call, service_vars, progress_vars, after_batch_vars>>

\* the rest of the iteration: compress_image(...).await and the match on
\* its response; a panic inside compress_image ends the command
BatchCompressImage(out_size, db_ok) ==
    LET file_path == batch.file_paths[batch.index + 1]
        c == command_compress_image(files, file_path, batch.format, out_size,
                                    overflow_checks)
        emitted == [k \in 1..Len(c.stages) |->
                       <<"compression-progress", c.stages[k], batch.index>>]
        saves == c.stat.some /\ db_ok
        success == IF c.kind = "panic" THEN FALSE
                   ELSE response_success(c.success, saves)
    IN  /\ batch.pc = "compress"
        /\ events' = events \o emitted
        /\ files' = c.fs
        /\ rows' = IF saves THEN Append(rows, [c.stat.v EXCEPT !.id = Some(next_id)])
                   ELSE rows
        /\ next_id' = IF saves THEN next_id + 1 ELSE next_id
        /\ saved' = IF saves THEN saved + 1 ELSE saved
        /\ batch' = IF c.kind = "panic" THEN [batch EXCEPT !.pc = "panicked"]
                    ELSE [batch EXCEPT
                            !.pc = "loop",
                            !.index = @ + 1,
                            !.results = Append(@, [success |-> success,
                                                   file_path |-> file_path]),
                            !.successful = IF success THEN @ + 1 ELSE @,
                            !.failed = IF success THEN @ ELSE @ + 1]
        /\ UNCHANGED <<settings_vars, pure_vars, engine_call, stdev_resolves, store_call, service_vars, progress_vars, after_batch_vars>>

\* after the loop: Ok(CompressBatchResponse { .. })
BatchReturn ==
    /\ batch.pc = "loop"
    /\ batch.index = batch.total_files
    /\ batch' = [batch EXCEPT !.pc = "returned"]
    /\ UNCHANGED <<events, files, rows, next_id, saved>>
    /\ UNCHANGED <<settings_vars, pure_vars, engine_call, stdev_resolves, store_call, service_vars, progress_vars, after_batch_vars>>

NextBatch ==
    \/ \E path \in BatchPaths : AddFilePath(path)
    \/ \E format \in OutputFormat : CompressBatch(format)
    \/ BatchEmitProgress
    \/ \E out_size \in OutSizes, db_ok \in BOOLEAN : BatchCompressImage(out_size, db_ok)
    \/ BatchReturn

---------------------------------------------------------------------------
(* commands/compression.rs, commands/stats.rs, commands/progress.rs: the   *)
(* static STATS_STORE of each module and the commands that lock it         *)

\* the modules that declare a static STATS_STORE: each is a Mutex around a
\* SqliteStatsStore of its own, opened on the same compression_stats.db
Modules == {"compression", "stats", "progress"}

\* the commands that use the statistics store
Commands == {"compress_image", "record_compression_stat",
             "get_compression_estimation", "get_stats_count",
             "reset_compression_stats", "get_progress_estimation"}

\* the STATS_STORE a command names: the static of its own module
stats_store_of(command) ==
    CASE command = "compress_image" -> "compression"
      [] command = "get_progress_estimation" -> "progress"
      [] OTHER -> "stats"

\* the command is invoked and runs up to its STATS_STORE.lock()
Invoke(command) ==
    /\ running[command] = "idle"
    /\ running' = [running EXCEPT ![command] = "at_lock"]
    /\ UNCHANGED store_locks
    /\ UNCHANGED <<settings_vars, pure_vars, engine_vars, store_vars, service_vars, progress_vars, batch_vars, shared_vars>>

\* STATS_STORE.lock() returns the guard: the store operation begins
LockStore(command) ==
    /\ running[command] = "at_lock"
    /\ store_locks[stats_store_of(command)] = "free"
    /\ store_locks' = [store_locks EXCEPT ![stats_store_of(command)] = command]
    /\ running' = [running EXCEPT ![command] = "in_store"]
    /\ UNCHANGED <<settings_vars, pure_vars, engine_vars, store_vars, service_vars, progress_vars, batch_vars, shared_vars>>

\* the store operation has returned and the guard is dropped
UnlockStore(command) ==
    /\ running[command] = "in_store"
    /\ store_locks' = [store_locks EXCEPT ![stats_store_of(command)] = "free"]
    /\ running' = [running EXCEPT ![command] = "idle"]
    /\ UNCHANGED <<settings_vars, pure_vars, engine_vars, store_vars, service_vars, progress_vars, batch_vars, shared_vars>>

NextLocks ==
    \/ \E command \in Commands : Invoke(command)
    \/ \E command \in Commands : LockStore(command)
    \/ \E command \in Commands : UnlockStore(command)

---------------------------------------------------------------------------
(* domain/shared/events.rs: EventBus.                                      *)

DefaultMaxHistory == 1000
MaxPublished == 5
MaxListeners == 2
MaxHistory == 3

\* EventBus::new
EventBus_new ==
    [listeners |-> <<>>, event_history |-> <<>>,
     max_history_size |-> DefaultMaxHistory]

NoBusCall == [op |-> "none"]

EventTypes == {"Info", "Error"}

\* a listener: <<the event types it can handle, what its handle_event returns>>
Listeners == {<<"all", "ok">>, <<"all", "err">>, <<"errors", "err">>}

\* EventListener::can_handle
can_handle(listener, event_type) ==
    listener[1] = "all" \/ event_type = "Error"

\* EventListener::handle_event
handle_event(listener, event) ==
    IF listener[2] = "ok" THEN Ok("unit") ELSE Err("Internal")

\* publish with the trimming left out
trim_history_skipped(event_history, max_history_size) == event_history

\* publish: if self.event_history.len() > self.max_history_size { remove(0) }
trim_history(event_history, max_history_size) ==
    IF Len(event_history) > max_history_size
    THEN Tail(event_history)
    ELSE event_history

\* publish: the bus afterwards, the listener errors that were logged, the result
publish(bus, event) ==
    LET pushed == Append(bus.event_history, event)
        failed == {k \in 1..Len(bus.listeners) :
                      /\ can_handle(bus.listeners[k], event.event_type)
                      /\ handle_event(bus.listeners[k], event).kind = "err"}
    IN  [bus |-> [bus EXCEPT !.event_history =
                                 trim_history(pushed, bus.max_history_size)],
         logged |-> Cardinality(failed),
         result |-> Ok("unit")]

\* set_max_history_size
set_max_history_size(bus, size) ==
    LET len == Len(bus.event_history)
        excess == len - size
    IN  [bus EXCEPT !.max_history_size = size,
                    !.event_history = IF len > size
                                      THEN SubSeq(@, excess + 1, len)
                                      ELSE @]

\* add_listener
AddListener(handles, outcome) ==
    /\ Len(event_bus.listeners) < MaxListeners
    /\ event_bus' = [event_bus EXCEPT !.listeners = Append(@, <<handles, outcome>>)]
    /\ bus_call' = [op |-> "add_listener"]
    /\ UNCHANGED published
    /\ UNCHANGED <<settings_vars, pure_vars, engine_vars, store_vars, service_vars, progress_vars, batch_vars, lock_vars, config_vars>>

\* publish of a new event: generate_event_id numbers the events
Publish(event_type) ==
    LET event == [id |-> Len(published) + 1, event_type |-> event_type]
        r == publish(event_bus, event)
    IN
    /\ Len(published) < MaxPublished
    /\ event_bus' = r.bus
    /\ published' = Append(published, event)
    /\ bus_call' = [op |-> "publish", logged |-> r.logged, result |-> r.result]
    /\ UNCHANGED <<settings_vars, pure_vars, engine_vars, store_vars, service_vars, progress_vars, batch_vars, lock_vars, config_vars>>

SetMaxHistorySize(size) ==
    /\ event_bus' = set_max_history_size(event_bus, size)
    /\ bus_call' = [op |-> "set_max_history_size"]
    /\ UNCHANGED published
    /\ UNCHANGED <<settings_vars, pure_vars, engine_vars, store_vars, service_vars, progress_vars, batch_vars, lock_vars, config_vars>>

NextBus ==
    \/ \E l \in Listeners : AddListener(l[1], l[2])
    \/ \E event_type \in EventTypes : Publish(event_type)
    \/ \E size \in 0..MaxHistory : SetMaxHistorySize(size)

---------------------------------------------------------------------------
(* domain/shared/config.rs and domain/shared/mod.rs: the held AppConfig.   *)

\* AppConfig::default, the fields that validate reads
default_config ==
    [temp_dir |-> "/tmp/plume",
     max_file_size |-> 104857600,
     supported_formats |-> <<"png", "jpg", "jpeg", "webp">>,
     compression |-> [default_quality |-> 80, max_dimensions |-> <<4096, 4096>>],
     performance |-> [max_concurrent_operations |-> 4, memory_limit_mb |-> 1024],
     security |-> [max_path_depth |-> 20]]

\* CompressionConfig::validate
compression_validate(c) ==
    IF ~(c.default_quality \in 1..100) THEN Err("Configuration")
    ELSE IF c.max_dimensions[1] = 0 \/ c.max_dimensions[2] = 0
         THEN Err("Configuration")
         ELSE Ok("unit")

\* PerformanceConfig::validate
performance_validate(c) ==
    IF c.max_concurrent_operations = 0 THEN Err("Configuration")
    ELSE IF c.memory_limit_mb = 0 THEN Err("Configuration")
         ELSE Ok("unit")

\* SecurityConfig::validate
security_validate(c) ==
    IF c.max_path_depth = 0 THEN Err("Configuration") ELSE Ok("unit")

\* AppConfig::validate
validate(config) ==
    IF config.temp_dir = "" THEN Err("Configuration")
    ELSE IF config.max_file_size = 0 THEN Err("Configuration")
    ELSE IF config.supported_formats = <<>> THEN Err("Configuration")
    ELSE IF compression_validate(config.compression).kind = "err"
         THEN compression_validate(config.compression)
    ELSE IF performance_validate(config.performance).kind = "err"
         THEN performance_validate(config.performance)
    ELSE IF security_validate(config.security).kind = "err"
         THEN security_validate(config.security)
    ELSE Ok("unit")

\* the configurations handed to update_config: two valid ones and one for
\* every check of validate
Configs ==
    << default_config,
       [default_config EXCEPT !.max_file_size = 2048],
       [default_config EXCEPT !.max_file_size = 0],
       [default_config EXCEPT !.temp_dir = ""],
       [default_config EXCEPT !.supported_formats = <<>>],
       [default_config EXCEPT !.compression.default_quality = 0],
       [default_config EXCEPT !.compression.default_quality = 101],
       [default_config EXCEPT !.compression.max_dimensions = <<0, 4096>>],
       [default_config EXCEPT !.performance.max_concurrent_operations = 0],
       [default_config EXCEPT !.performance.memory_limit_mb = 0],
       [default_config EXCEPT !.security.max_path_depth = 0] >>

\* what the updater closure of AppState::update_config does: it fails before
\* it writes, or writes and succeeds, or writes and fails
Updaters == {"err", "write_ok", "write_err"}

NoConfigCall == [op |-> "none"]

\* ConfigManager::update_config
update_config(config, new_config) ==
    IF validate(new_config).kind = "err"
    THEN [config |-> config, result |-> validate(new_config)]
    ELSE [config |-> new_config, result |-> Ok("unit")]

\* AppState::update_config: the updater works on the held config behind the
\* write lock, validate comes afterwards
app_state_update_config(config, new_config, updater) ==
    LET written == IF updater = "err" THEN config ELSE new_config
    IN  IF updater # "write_ok"
        THEN [config |-> written, result |-> Err("Internal")]
        ELSE [config |-> written, result |-> validate(written)]

UpdateConfig(k) ==
    LET r == update_config(config_manager, Configs[k])
    IN
    /\ config_manager' = r.config
    /\ config_call' = [op |-> "ConfigManager::update_config",
                       before |-> config_manager, result |-> r.result]
    /\ UNCHANGED app_state_config
    /\ UNCHANGED <<settings_vars, pure_vars, engine_vars, store_vars, service_vars, progress_vars, batch_vars, lock_vars, bus_vars>>

AppStateUpdateConfig(k, updater) ==
    LET r == app_state_update_config(app_state_config, Configs[k], updater)
    IN
    /\ app_state_config' = r.config
    /\ config_call' = [op |-> "AppState::update_config",
                       before |-> app_state_config, result |-> r.result]
    /\ UNCHANGED config_manager
    /\ UNCHANGED <<settings_vars, pure_vars, engine_vars, store_vars, service_vars, progress_vars, batch_vars, lock_vars, bus_vars>>

NextConfig ==
    \/ \E k \in 1..Len(Configs) : UpdateConfig(k)
    \/ \E k \in 1..Len(Configs), updater \in Updaters : AppStateUpdateConfig(k, updater)

---------------------------------------------------------------------------
(* The specifications: one per component, the other components at rest.    *)

DefaultSettings == new(80, "WebP")
NoOp == [op |-> "default"]
NoRet == [fn |-> "none", result |-> Pending]

\* CompressionSettings::new on every u8 quality and every format
InitSettings ==
    \E q \in U8, f \in OutputFormat :
        /\ settings = new(q, f)
        /\ settings_op = [op |-> "new", quality |-> q]
        /\ overflow_checks = FALSE
        /\ ret = NoRet
        /\ files = InitialFiles
        /\ engine_call = NoCall
        /\ stdev_resolves = FALSE
        /\ rows = <<>>
        /\ next_id = 1
        /\ saved = 0
        /\ store_call = NoStoreCall
        /\ compressors = NoCompressors
        /\ service_call = NoServiceCall
        /\ calculator = NoCalculator
        /\ elapsed_ms = 0
        /\ progress_call = NoProgressCall
        /\ prev_progress = None
        /\ batch = NoBatch
        /\ events = <<>>
        /\ store_locks = [m \in Modules |-> "free"]
        /\ running = [c \in Commands |-> "idle"]
        /\ event_bus = EventBus_new
        /\ published = <<>>
        /\ bus_call = NoBusCall
        /\ config_manager = default_config
        /\ app_state_config = default_config
        /\ config_call = NoConfigCall

InitPure ==
    \E call \in PureCalls, checks \in BOOLEAN :
        /\ ret = call
        /\ overflow_checks = checks
        /\ settings = DefaultSettings
        /\ settings_op = NoOp
        /\ files = InitialFiles
        /\ engine_call = NoCall
        /\ stdev_resolves = FALSE
        /\ rows = <<>>
        /\ next_id = 1
        /\ saved = 0
        /\ store_call = NoStoreCall
        /\ compressors = NoCompressors
        /\ service_call = NoServiceCall
        /\ calculator = NoCalculator
        /\ elapsed_ms = 0
        /\ progress_call = NoProgressCall
        /\ prev_progress = None
        /\ batch = NoBatch
        /\ events = <<>>
        /\ store_locks = [m \in Modules |-> "free"]
        /\ running = [c \in Commands |-> "idle"]
        /\ event_bus = EventBus_new
        /\ published = <<>>
        /\ bus_call = NoBusCall
        /\ config_manager = default_config
        /\ app_state_config = default_config
        /\ config_call = NoConfigCall

InitEngine ==
    \E checks \in BOOLEAN :
        /\ overflow_checks = checks
        /\ files = InitialFiles
        /\ engine_call = NoCall
        /\ settings = DefaultSettings
        /\ settings_op = NoOp
        /\ ret = NoRet
        /\ stdev_resolves = FALSE
        /\ rows = <<>>
        /\ next_id = 1
        /\ saved = 0
        /\ store_call = NoStoreCall
        /\ compressors = NoCompressors
        /\ service_call = NoServiceCall
        /\ calculator = NoCalculator
        /\ elapsed_ms = 0
        /\ progress_call = NoProgressCall
        /\ prev_progress = None
        /\ batch = NoBatch
        /\ events = <<>>
        /\ store_locks = [m \in Modules |-> "free"]
        /\ running = [c \in Commands |-> "idle"]
        /\ event_bus = EventBus_new
        /\ published = <<>>
        /\ bus_call = NoBusCall
        /\ config_manager = default_config
        /\ app_state_config = default_config
        /\ config_call = NoConfigCall

\* SqliteStatsStore::in_memory(): an empty table
InitStore ==
    \E stdev \in BOOLEAN :
        /\ stdev_resolves = stdev
        /\ rows = <<>>
        /\ next_id = 1
        /\ saved = 0
        /\ store_call = NoStoreCall
        /\ overflow_checks = FALSE
        /\ settings = DefaultSettings
        /\ settings_op = NoOp
        /\ ret = NoRet
        /\ files = InitialFiles
        /\ engine_call = NoCall
        /\ compressors = NoCompressors
        /\ service_call = NoServiceCall
        /\ calculator = NoCalculator
        /\ elapsed_ms = 0
        /\ progress_call = NoProgressCall
        /\ prev_progress = None
        /\ batch = NoBatch
        /\ events = <<>>
        /\ store_locks = [m \in Modules |-> "free"]
        /\ running = [c \in Commands |-> "idle"]
        /\ event_bus = EventBus_new
        /\ published = <<>>
        /\ bus_call = NoBusCall
        /\ config_manager = default_config
        /\ app_state_config = default_config
        /\ config_call = NoConfigCall

\* CompressionService::new, in either build profile
InitService ==
    \E checks \in BOOLEAN :
        /\ compressors = NoCompressors
        /\ service_call = NoServiceCall
        /\ overflow_checks = checks
        /\ settings = DefaultSettings
        /\ settings_op = NoOp
        /\ ret = NoRet
        /\ files = InitialFiles
        /\ engine_call = NoCall
        /\ stdev_resolves = FALSE
        /\ rows = <<>>
        /\ next_id = 1
        /\ saved = 0
        /\ store_call = NoStoreCall
        /\ calculator = NoCalculator
        /\ elapsed_ms = 0
        /\ progress_call = NoProgressCall
        /\ prev_progress = None
        /\ batch = NoBatch
        /\ events = <<>>
        /\ store_locks = [m \in Modules |-> "free"]
        /\ running = [c \in Commands |-> "idle"]
        /\ event_bus = EventBus_new
        /\ published = <<>>
        /\ bus_call = NoBusCall
        /\ config_manager = default_config
        /\ app_state_config = default_config
        /\ config_call = NoConfigCall

InitBatch ==
    \E checks \in BOOLEAN :
        /\ compressors = NoCompressors
        /\ service_call = NoServiceCall
        /\ overflow_checks = checks
        /\ settings = DefaultSettings
        /\ settings_op = NoOp
        /\ ret = NoRet
        /\ files = InitialFiles
        /\ engine_call = NoCall
        /\ stdev_resolves = FALSE
        /\ rows = <<>>
        /\ next_id = 1
        /\ saved = 0
        /\ store_call = NoStoreCall
        /\ calculator = NoCalculator
        /\ elapsed_ms = 0
        /\ progress_call = NoProgressCall
        /\ prev_progress = None
        /\ batch = NoBatch
        /\ events = <<>>
        /\ store_locks = [m \in Modules |-> "free"]
        /\ running = [c \in Commands |-> "idle"]
        /\ event_bus = EventBus_new
        /\ published = <<>>
        /\ bus_call = NoBusCall
        /\ config_manager = default_config
        /\ app_state_config = default_config
        /\ config_call = NoConfigCall

InitProgress ==
        /\ compressors = NoCompressors
        /\ service_call = NoServiceCall
        /\ overflow_checks = FALSE
        /\ settings = DefaultSettings
        /\ settings_op = NoOp
        /\ ret = NoRet
        /\ files = InitialFiles
        /\ engine_call = NoCall
        /\ stdev_resolves = FALSE
        /\ rows = <<>>
        /\ next_id = 1
        /\ saved = 0
        /\ store_call = NoStoreCall
        /\ calculator = NoCalculator
        /\ elapsed_ms = 0
        /\ progress_call = NoProgressCall
        /\ prev_progress = None
        /\ batch = NoBatch
        /\ events = <<>>
        /\ store_locks = [m \in Modules |-> "free"]
        /\ running = [c \in Commands |-> "idle"]
        /\ event_bus = EventBus_new
        /\ published = <<>>
        /\ bus_call = NoBusCall
        /\ config_manager = default_config
        /\ app_state_config = default_config
        /\ config_call = NoConfigCall

InitLocks ==
        /\ compressors = NoCompressors
        /\ service_call = NoServiceCall
        /\ overflow_checks = FALSE
        /\ settings = DefaultSettings
        /\ settings_op = NoOp
        /\ ret = NoRet
        /\ files = InitialFiles
        /\ engine_call = NoCall
        /\ stdev_resolves = FALSE
        /\ rows = <<>>
        /\ next_id = 1
        /\ saved = 0
        /\ store_call = NoStoreCall
        /\ calculator = NoCalculator
        /\ elapsed_ms = 0
        /\ progress_call = NoProgressCall
        /\ prev_progress = None
        /\ batch = NoBatch
        /\ events = <<>>
        /\ store_locks = [m \in Modules |-> "free"]
        /\ running = [c \in Commands |-> "idle"]
        /\ event_bus = EventBus_new
        /\ published = <<>>
        /\ bus_call = NoBusCall
        /\ config_manager = default_config
        /\ app_state_config = default_config
        /\ config_call = NoConfigCall

SpecSettings == InitSettings /\ [][NextSettings]_vars
SpecPure == InitPure /\ [][NextPure]_vars
SpecEngine == InitEngine /\ [][NextEngine]_vars
SpecStore == InitStore /\ [][NextStore]_vars
SpecEstimator == InitStore /\ [][NextEstimator]_vars
SpecService == InitService /\ [][NextService]_vars
SpecProgress == InitProgress /\ [][NextProgress]_vars
\* the clock keeps advancing and the host loop keeps polling
SpecProgressLive ==
    /\ InitProgress
    /\ [][NextProgress]_vars
    /\ WF_vars(\E ms \in 1..2 : Tick(ms))
    /\ WF_vars(ShouldContinueUpdates)
SpecBatch == InitBatch /\ [][NextBatch]_vars
SpecLocks == InitLocks /\ [][NextLocks]_vars
SpecBus == InitLocks /\ [][NextBus]_vars
SpecConfig == InitLocks /\ [][NextConfig]_vars

---------------------------------------------------------------------------
(* Properties.                                                             *)

\* C1: after CompressionSettings::new and any sequence of with_quality,
\* with_metadata_preservation and with_alpha_optimization calls the stored
\* quality is in [1,100] and is_valid() holds; new and with_quality store
\* their u8 input clamped: 0 becomes 1, anything above 100 becomes 100.
C1_QualityClamped ==
    /\ settings.quality >= 1 /\ settings.quality <= 100
    /\ is_valid(settings)
    /\ settings_op.op \in {"new", "with_quality"} =>
           settings.quality = (IF settings_op.quality = 0 THEN 1
                               ELSE IF settings_op.quality > 100 THEN 100
                               ELSE settings_op.quality)

\* a builder chain ending in with_quality(255), stored as 100
C1_Witness ==
    /\ settings_op = [op |-> "with_quality", quality |-> 255]
    /\ settings.quality = 100
    /\ settings.preserve_metadata
    /\ ~settings.optimize_alpha

\* C2: compress_file_to_file called with a quality outside [1,100] returns
\* InvalidSettings and performs no file operation at all (no metadata, no
\* read, no create, no write), whatever the input path is.
C2_ValidatesSettingsFirst ==
    (engine_call.fn = "compress_file_to_file"
        /\ (engine_call.settings.quality < 1 \/ engine_call.settings.quality > 100))
    => /\ engine_call.result = Err("InvalidSettings")
       /\ engine_call.effects = <<>>
       /\ ~engine_call.files_changed

\* quality 101 on a file that does not exist: InvalidSettings, not IoError
C2_Witness ==
    /\ engine_call.fn = "compress_file_to_file"
    /\ engine_call.settings.quality = 101
    /\ engine_call.input_path = "missing.png"
    /\ engine_call.result = Err("InvalidSettings")

\* C3: for every pair of sizes, CompressionOutput::new returns and its
\* savings_percent is the signed value ((original - compressed) / original)
\* * 100, negative when compressed > original, and 0 when original is 0.
C3_SignedSavings ==
    (ret.fn = "CompressionOutput::new" /\ ret.result # Pending)
    => /\ ret.result.kind = "ok"
       /\ ret.result.savings_percent =
              (IF ret.original_size = 0 THEN RatInt(0)
               ELSE Rat((ret.original_size - ret.compressed_size) * 100,
                        ret.original_size))

\* C4: get_size_range gives "small" up to 1,000,000, "medium" from 1,000,001
\* to 5,000,000 and "large" from 5,000,001 on.
C4_SizeRangePartition ==
    (ret.fn = "get_size_range" /\ ret.result # Pending)
    => /\ ret.result.v = (IF ret.size_bytes <= 1000000 THEN "small"
                          ELSE IF ret.size_bytes <= 5000000 THEN "medium"
                          ELSE "large")
       /\ ret.size_bytes = 1000000 => ret.result.v = "small"
       /\ ret.size_bytes \in {1000001, 5000000} => ret.result.v = "medium"
       /\ ret.size_bytes = 5000001 => ret.result.v = "large"

C4_Witness ==
    /\ ret.fn = "get_size_range"
    /\ ret.size_bytes = 1000001
    /\ ret.result = [kind |-> "ok", v |-> "medium"]

\* C5: calculate_confidence(0, _) is 0; the result lies in [0,1] for every
\* variance (negative, zero, NaN and infinite ones too); it is no smaller
\* than the result for any smaller sample count and the same variance; and
\* with a variance that is not positive it is the bucket value 0.3 / 0.6 /
\* 0.8 / 0.9.
C5_Confidence ==
    (ret.fn = "calculate_confidence" /\ ret.result # Pending)
    => LET v == ret.result.v
           k == ret.sample_count
       IN  /\ k = 0 => v = RatInt(0)
           /\ RatLE(RatInt(0), v) /\ RatLE(v, RatInt(1))
           /\ \A m \in 0..k : RatLE(calculate_confidence(m, ret.variance), v)
           /\ (ret.variance \in {Rat(-1, 1), RatInt(0), NaN, NegInf} /\ k > 0) =>
                  v = (IF k <= 5 THEN Rat(3, 10)
                       ELSE IF k <= 20 THEN Rat(6, 10)
                       ELSE IF k <= 50 THEN Rat(8, 10)
                       ELSE Rat(9, 10))
           /\ (ret.variance = Rat(1, 2) /\ k \in 21..50) => v = Rat(8, 15)

\* 21 samples with variance 0.5: 0.8 / 1.5
C5_Witness ==
    /\ ret.fn = "calculate_confidence"
    /\ ret.sample_count = 21
    /\ ret.variance = Rat(1, 2)
    /\ ret.result = [kind |-> "ok", v |-> Rat(8, 15)]

\* the rows a query matches, as the claims state it
ClaimMatches(row, q) ==
    /\ row.input_format = q.input_format
    /\ row.output_format = q.output_format
    /\ row.lossy_mode = q.lossy_mode
    /\ row.quality_setting >= (IF q.quality_setting - 10 > 1
                               THEN q.quality_setting - 10 ELSE 1)
    /\ row.quality_setting <= (IF q.quality_setting + 10 < 100
                               THEN q.quality_setting + 10 ELSE 100)

ClaimMatchCount(q) == Cardinality({k \in 1..Len(rows) : ClaimMatches(rows[k], q)})

\* the static heuristic as the claim lists it: <<percent, confidence>>
ClaimHeuristic(q) ==
    LET i == to_lowercase(q.input_format)
        o == to_lowercase(q.output_format)
    IN  CASE i = "png" /\ o = "webp" /\ q.quality_setting < 90 ->
                 <<RatInt(85), Rat(9, 10)>>
          [] i = "png" /\ o = "webp" /\ q.quality_setting >= 90 ->
                 <<RatInt(43), Rat(8, 10)>>
          [] i \in {"jpg", "jpeg"} /\ o = "webp" -> <<RatInt(25), Rat(7, 10)>>
          [] i = "png" /\ o = "png" -> <<RatInt(15), Rat(9, 10)>>
          [] i = "jpeg" /\ o = "jpeg" -> <<RatInt(20), Rat(8, 10)>>
          [] i = "webp" /\ o = "webp" -> <<RatInt(10), Rat(6, 10)>>
          [] OTHER -> <<RatInt(5), Rat(3, 10)>>

\* a get_estimation call that the database itself did not fail
EstimationCall ==
    /\ store_call.op = "get_estimation"
    /\ store_call.db_ok

\* C6: with no stored stat matching the query, get_estimation returns Ok
\* with the static heuristic's percent and confidence for the query's format
\* pair and quality, and ratio = (100 - percent) / 100.
C6_FallbackIsHeuristic ==
    (EstimationCall /\ ClaimMatchCount(store_call.query) = 0)
    => /\ store_call.result.kind = "ok"
       /\ store_call.result.v.percent = ClaimHeuristic(store_call.query)[1]
       /\ store_call.result.v.confidence = ClaimHeuristic(store_call.query)[2]
       /\ store_call.result.v.ratio =
              RatDiv(RatSub(RatInt(100), ClaimHeuristic(store_call.query)[1]),
                     RatInt(100))

C8_EstimationReflectsSavedStats ==
    (EstimationCall /\ ClaimMatchCount(store_call.query) > 0)
    => LET m == SelectSeq(rows, LAMBDA row : ClaimMatches(row, store_call.query))
           mean == RatDiv(SumPercent(m), RatInt(Len(m)))
       IN  /\ store_call.result.kind = "ok"
           /\ store_call.result.v.sample_count = ClaimMatchCount(store_call.query)
           /\ store_call.result.v.percent = mean
           /\ store_call.result.v.ratio =
                  RatDiv(RatSub(RatInt(100), mean), RatInt(100))

\* C9, in every state: the table holds as many rows as save_stat succeeded
\* since the last clear_all, count_stats returns that number, clear_all
\* leaves none, and save_stat returns an id > 0.
C9_CountInv ==
    /\ count_stats(rows) = saved
    /\ (store_call.op = "count_stats" /\ store_call.result.kind = "ok") =>
           store_call.result.v = saved
    /\ (store_call.op = "clear_all" /\ store_call.result.kind = "ok") =>
           (saved = 0 /\ rows = <<>>)
    /\ (store_call.op = "save_stat" /\ store_call.result.kind = "ok") =>
           store_call.result.v > 0

\* C9, in every step: a successful save_stat appends exactly one row, a
\* successful clear_all removes all, and nothing else (get_estimation,
\* count_stats, a failed call) changes a stored row.
C9_RowsStep ==
    \/ rows' = rows
    \/ /\ store_call'.op = "save_stat" /\ store_call'.result.kind = "ok"
       /\ Len(rows') = Len(rows) + 1
       /\ SubSeq(rows', 1, Len(rows)) = rows
       /\ saved' = saved + 1
    \/ /\ store_call'.op = "clear_all" /\ store_call'.result.kind = "ok"
       /\ rows' = <<>>

\* C9: count_stats returns the number of successful save_stat calls since
\* the most recent clear_all; each save_stat adds one row and returns an id
\* > 0; get_estimation and count_stats change no row and no stored row is
\* ever modified.
C9_StoreCounts == [](C9_CountInv) /\ [][C9_RowsStep]_vars

\* count_stats answering 2 after a save, a clear_all and two more saves
C9_Witness ==
    /\ store_call.op = "count_stats"
    /\ store_call.result = Ok(2)
    /\ next_id = 4
    /\ saved = 2

\* C10: for a WebP target the encoder is called lossless (no quality
\* passed) when quality >= 90 and lossy at exactly the given quality when
\* quality < 90, so it is lossless exactly when the stat created from the
\* same settings has lossy_mode = false.
C10_WebPModeByThreshold ==
    (engine_call.fn = "compress_file_to_file"
        /\ engine_call.settings.format = "WebP")
    => LET q == engine_call.settings.quality
           stat == create_stat("png", "webp", 1000, 400, engine_call.settings,
                               FALSE).v
       IN  /\ engine_call.result.kind = "ok" => engine_call.encoder.mode # "none"
           /\ engine_call.encoder.mode # "none" =>
                  /\ q >= 90 => engine_call.encoder = [mode |-> "lossless"]
                  /\ q < 90 => engine_call.encoder =
                                   [mode |-> "lossy", quality |-> q]
                  /\ (engine_call.encoder.mode = "lossless") <=> ~stat.lossy_mode
                  /\ engine_call.result.kind = "ok" =>
                         files[engine_call.output_path].enc =
                             (IF q >= 90 THEN "lossless" ELSE "lossy")

\* a JPEG input encoded to lossless WebP at the threshold quality 90
C10_Witness ==
    /\ engine_call.fn = "compress_file_to_file"
    /\ engine_call.settings.format = "WebP"
    /\ engine_call.settings.quality = 90
    /\ engine_call.input_path = "b.jpg"
    /\ engine_call.result.kind = "ok"
    /\ engine_call.encoder = [mode |-> "lossless"]

\* C11: for every original_size, compressed_size and settings, create_stat
\* and create_compression_stat return a stat with input_size_range =
\* get_size_range(original_size), lossy_mode = (quality < 90),
\* quality_setting = quality, id = None and compression_time_ms = None, and
\* create_stat_with_time returns the same stat with compression_time_ms =
\* Some(time).
C11_StatFields ==
    (ret.fn \in {"create_stat", "create_stat_with_time",
                 "create_compression_stat"} /\ ret.result # Pending)
    => /\ ret.result.kind = "ok"
       /\ ret.result.v.input_size_range =
              (IF ret.original_size <= 1000000 THEN "small"
               ELSE IF ret.original_size <= 5000000 THEN "medium" ELSE "large")
       /\ ret.result.v.lossy_mode = (ret.quality < 90)
       /\ ret.result.v.quality_setting = ret.quality
       /\ ret.result.v.id = None
       /\ ret.result.v.compression_time_ms =
              (IF ret.fn = "create_stat_with_time"
               THEN Some(ret.compression_time_ms) ELSE None)

\* C11 wherever the subtraction of the sizes does not abort
C11_StatFieldsWhenReturned ==
    (ret.fn \in {"create_stat", "create_stat_with_time",
                 "create_compression_stat"} /\ ret.result # Pending
        /\ ret.result.kind # "ok")
    \/ C11_StatFields

\* C12: for an existing input whose path has no extension, or an extension
\* other than png, jpg, jpeg, webp, compress_file_to_file returns
\* UnsupportedFormat and writes no output file, for each target format.
C12_UnsupportedFormat ==
    (engine_call.fn = "compress_file_to_file"
        /\ is_valid(engine_call.settings)
        /\ engine_call.input_path \in {"e.gif", "locked.gif", "noext"})
    => /\ engine_call.result = Err("UnsupportedFormat")
       /\ ~engine_call.files_changed
       /\ \A k \in 1..Len(engine_call.effects) :
              engine_call.effects[k][1] \notin {"write", "create", "copy"}

\* C13: a compressor called with settings.format other than its own
\* returns UnsupportedFormat without handing the data to a codec;
\* supports_format is true for its own format only; compress_image returns
\* UnsupportedFormat when nothing is registered under settings.format and
\* otherwise calls no compressor but the registered one and returns what
\* that compressor's compress returns.
C13_CompressorsRejectOtherFormats ==
    /\ (service_call.fn = "compress"
           /\ service_call.format # OwnFormat(service_call.compressor))
       => /\ service_call.result = Err("UnsupportedFormat")
          /\ ~service_call.decoded
    /\ service_call.fn = "supports_format"
       => (service_call.result <=>
              \/ service_call.compressor = "WebpCompressor"
                    /\ service_call.format = "WebP"
              \/ service_call.compressor = "OxipngCompressor"
                    /\ service_call.format = "Png"
              \/ service_call.compressor = "JpegCompressor"
                    /\ service_call.format = "Jpeg")
    /\ service_call.fn = "compress_image"
       => LET registered == compressors[service_call.format]
          IN  IF registered = "none"
              THEN /\ service_call.result = Err("UnsupportedFormat")
                   /\ service_call.invoked = <<>>
              ELSE /\ \A k \in 1..Len(service_call.invoked) :
                          service_call.invoked[k] = registered
                   /\ Len(service_call.invoked) <= 1
                   /\ service_call.result =
                          compress(registered, service_call.data,
                                   RawSettings(service_call.quality,
                                               service_call.format),
                                   service_call.out_size, overflow_checks).res
                   /\ (registered # (CASE service_call.format = "WebP" -> "WebpCompressor"
                                        [] service_call.format = "Png" -> "OxipngCompressor"
                                        [] service_call.format = "Jpeg" -> "JpegCompressor"))
                      => /\ service_call.result = Err("UnsupportedFormat")
                         /\ ~service_call.decoded

\* the WebP compressor registered under Png and compress_image called for
\* Png on PNG data: UnsupportedFormat, nothing decoded
C13_Witness ==
    /\ service_call.fn = "compress_image"
    /\ service_call.format = "Png"
    /\ service_call.data = "png"
    /\ compressors["Png"] = "WebpCompressor"
    /\ service_call.result = Err("UnsupportedFormat")
    /\ ~service_call.decoded

\* C14: estimate_duration returns Ok for every query and every store, a
\* store whose calls fail included, and a result from the fallback path has
\* confidence 0.4 and sample_count 0.
C14_EstimateDurationNeverFails ==
    store_call.op = "estimate_duration"
    => /\ store_call.result.kind = "ok"
       /\ (\A k \in 1..Len(rows) : ~rows[k].compression_time_ms.some)
              => /\ store_call.result.v.confidence = Rat(4, 10)
                 /\ RatLT(store_call.result.v.confidence, Rat(1, 2))
                 /\ store_call.result.v.sample_count = 0
       /\ ~store_call.db_ok
              => /\ store_call.result.v.confidence = Rat(4, 10)
                 /\ store_call.result.v.sample_count = 0

\* a failing store holding two stats, asked for png to webp: Ok, 300 ms
C14_Witness ==
    /\ store_call.op = "estimate_duration"
    /\ ~store_call.db_ok
    /\ Len(rows) = 2
    /\ store_call.result.kind = "ok"
    /\ store_call.result.v.estimated_duration_ms = 300

\* the timing table as the claim reads it: the entry for the format pair
\* and size bucket, or none
ClaimTableEntry(i, o, size) ==
    LET col == CASE size = "small" -> 1 [] size = "medium" -> 2 [] OTHER -> 3
    IN  CASE i = "png" /\ o = "webp" -> <<300, 1200, 3000>>[col]
          [] i = "png" /\ o = "png" -> <<800, 2500, 6000>>[col]
          [] i = "jpeg" /\ o = "webp" -> <<200, 800, 2000>>[col]
          [] i = "jpeg" /\ o = "jpeg" -> <<150, 500, 1200>>[col]
          [] i = "webp" /\ o = "webp" -> <<250, 900, 2200>>[col]
          [] OTHER -> <<300, 1000, 2500>>[col]

\* a format token in lower case with jpg read as jpeg
ClaimNormalized(f) ==
    CASE f \in {"png", "PNG"} -> "png"
      [] f \in {"jpg", "JPG", "jpeg", "JPEG"} -> "jpeg"
      [] f \in {"webp", "WEBP"} -> "webp"
      [] OTHER -> f

C16_UsesHistoricalTimings ==
    (store_call.op = "estimate_duration" /\ store_call.db_ok
        /\ \E k \in 1..Len(rows) :
               /\ rows[k].compression_time_ms.some
               /\ ClaimMatches(rows[k], store_call.query))
    => /\ store_call.result.kind = "ok"
       /\ store_call.result.v.sample_count > 0
       /\ RatLT(Rat(4, 10), store_call.result.v.confidence)

\* is the f64 a finite number
ClaimFinite(x) == x \notin {NaN, PosInf, NegInf}

\* what C17 says of the last two current_progress samples
ClaimProgressShape ==
    LET thr == calculator.config.completion_threshold
    IN  /\ f64_le(progress_call.v, thr)
        /\ progress_call.elapsed = 0 => progress_call.v = RatInt(0)
        /\ prev_progress.some =>
               /\ prev_progress.v.elapsed <= progress_call.elapsed
               /\ f64_le(prev_progress.v.v, progress_call.v)

C18_StrictlyBelowThreshold ==
    (progress_call.fn = "current_progress"
        /\ ClaimFinite(calculator.config.completion_threshold)
        /\ f64_lt(RatInt(0), calculator.config.completion_threshold))
    => f64_lt(progress_call.v, calculator.config.completion_threshold)

\* supporting C18: before the estimate has elapsed the value is strictly
\* below a finite positive threshold, and should_continue_updates says so
C18_BelowBeforeEstimate ==
    (progress_call.fn \in {"current_progress", "should_continue_updates"}
        /\ ClaimFinite(calculator.config.completion_threshold)
        /\ f64_lt(RatInt(0), calculator.config.completion_threshold)
        /\ (progress_call.elapsed < calculator.config.estimated_duration_ms
              \/ calculator.config.estimated_duration_ms = 0))
    => IF progress_call.fn = "current_progress"
       THEN f64_lt(progress_call.v, calculator.config.completion_threshold)
       ELSE progress_call.continue = TRUE

\* the positions in the event log of the batch-progress notifications
ClaimNotified == {k \in 1..Len(events) : events[k][1] = "batch-progress"}

\* the order C19 states: the j-th batch-progress event says current = j and
\* total = n, every event of file j-1 (0-based) comes after it, and every
\* earlier file has ended (Completed or Error) before it
ClaimBatchOrder ==
    \A k \in ClaimNotified :
        LET j == Cardinality({m \in ClaimNotified : m <= k})
        IN  /\ events[k] = <<"batch-progress", j, Len(batch.file_paths)>>
            /\ \A m \in 1..Len(events) :
                   events[m][1] = "compression-progress" =>
                       IF events[m][3] >= j - 1 THEN m > k ELSE m < k
            /\ \A i \in 0..(j - 2) :
                   \E m \in 1..(k - 1) :
                       /\ events[m][1] = "compression-progress"
                       /\ events[m][3] = i
                       /\ events[m][2] \in {"Completed", "Error"}

\* the response C19 states: one response per input in input order, and the
\* counts
ClaimBatchResponse ==
    batch.pc = "returned" =>
        /\ batch.total_files = Len(batch.file_paths)
        /\ Len(batch.results) = Len(batch.file_paths)
        /\ \A k \in 1..Len(batch.results) :
               batch.results[k].file_path = batch.file_paths[k]
        /\ batch.successful =
               Cardinality({k \in 1..Len(batch.results) : batch.results[k].success})
        /\ batch.successful + batch.failed = batch.total_files
        /\ Cardinality(ClaimNotified) = batch.total_files

\* C19: compress_batch handles file_paths one at a time in the given order,
\* the batch-progress notification of file i (current = i+1, total = n)
\* comes after file i-1 has finished and before file i starts, a failure of
\* one file does not stop the batch, and on return results holds one
\* response per input in input order with successful + failed =
\* total_files = number of inputs and successful counting the responses
\* whose success is true.
C19_BatchIsolatesFailures ==
    /\ ClaimBatchOrder
    /\ ClaimBatchResponse
    /\ batch.pc # "panicked"

\* supporting C19: the order of the events always, and the response
\* whenever compress_batch returns
C19_BatchWhenItReturns == ClaimBatchOrder /\ ClaimBatchResponse

\* supporting C19: a batch with a failed file in front and a successful one
\* behind it that returned
C19_MixedBatchReturned ==
    /\ batch.pc = "returned"
    /\ Len(batch.results) = 2
    /\ ~batch.results[1].success
    /\ batch.results[2].success

\* C20: every access to the statistics store made by concurrently running
\* commands is serialized behind one and the same exclusive lock guarding
\* one connection: no two store operations from different commands are in
\* progress at the same time.
C20_OneStoreLock ==
    \A c1, c2 \in Commands :
        (running[c1] = "in_store" /\ running[c2] = "in_store") => c1 = c2

\* supporting C20: the commands of one module exclude one another, and a
\* command is in the store only while it holds its module's mutex
C20_SerializedPerModule ==
    \A c1, c2 \in Commands :
        /\ running[c1] = "in_store" => store_locks[stats_store_of(c1)] = c1
        /\ (running[c1] = "in_store" /\ running[c2] = "in_store"
              /\ stats_store_of(c1) = stats_store_of(c2)) => c1 = c2

\* the buckets C21 names: 0.0 for 0, 0.3 for 1-5, 0.6 for 6-20, 0.8 for
\* 21-50, 0.9 above 50
ClaimBucket(n) ==
    IF n = 0 THEN RatInt(0)
    ELSE IF n <= 5 THEN Rat(3, 10)
    ELSE IF n <= 20 THEN Rat(6, 10)
    ELSE IF n <= 50 THEN Rat(8, 10)
    ELSE Rat(9, 10)

\* C21: the sample factor of CompressionPredictionService's confidence
\* computation equals the base confidence of stats::calculate_confidence
\* for every sample_count: 0.0 for 0, 0.3 for 1-5, 0.6 for 6-20, 0.8 for
\* 21-50 and 0.9 above 50.
C21_SameBucketing ==
    (ret.fn = "prediction::calculate_confidence" /\ ret.result # Pending)
    => /\ ret.result.sample_factor = ClaimBucket(ret.sample_count)
       /\ ret.result.sample_factor = base_confidence(ret.sample_count)

\* supporting C21: the two bucketings agree from 1 to 50 samples
C21_SameBucketingFrom1To50 ==
    (ret.fn = "prediction::calculate_confidence" /\ ret.result # Pending
        /\ ret.sample_count \in 1..50)
    => /\ ret.result.sample_factor = ClaimBucket(ret.sample_count)
       /\ ret.result.sample_factor = base_confidence(ret.sample_count)

\* the multiplier C24 names for a size bucket
ClaimSizeMultiplier(range) ==
    CASE range = "small" -> Rat(8, 10)
      [] range = "medium" -> RatInt(1)
      [] range = "large" -> Rat(11, 10)

\* the default reduction of a format pair
ClaimDefaultReduction(i, o) ==
    IF i = "PNG" /\ o = "WebP" THEN 70
    ELSE IF i = "JPEG" /\ o = "WebP" THEN 25
    ELSE IF i = "PNG" /\ o = "PNG" THEN 15
    ELSE IF i = "JPEG" /\ o = "JPEG" THEN 20
    ELSE 10

\* C24: predict_compression returns percent = base reduction times 0.8
\* when get_size_range(original_size) is small, times 1 when medium, times
\* 1.1 when large, the base being the historical average of the pair or,
\* when that average is 0, the default of the pair; ratio is
\* (100 - percent) / 100.
C24_SizeAdjustedPrediction ==
    (ret.fn = "predict_compression" /\ ret.result # Pending /\ ret.avg.kind = "ok")
    => LET base == IF ret.avg.v.n = 0
                   THEN RatInt(ClaimDefaultReduction(ret.input_format, ret.output_format))
                   ELSE ret.avg.v
           range == IF ret.original_size < 0 THEN "large"
                    ELSE IF ret.original_size <= 1000000 THEN "small"
                    ELSE IF ret.original_size <= 5000000 THEN "medium"
                    ELSE "large"
           percent == RatMul(base, ClaimSizeMultiplier(range))
       IN  /\ ret.result.kind = "ok"
           /\ ret.result.v.percent = percent
           /\ ret.result.v.ratio = RatDiv(RatSub(RatInt(100), percent), RatInt(100))

\* PNG to WebP with no history, 500000 bytes: 70 * 0.8 = 56, ratio 0.44
C24_Witness ==
    /\ ret.fn = "predict_compression"
    /\ ret.input_format = "PNG" /\ ret.output_format = "WebP"
    /\ ret.original_size = 500000
    /\ ret.avg = Ok(RatInt(0))
    /\ ret.result # Pending
    /\ ret.result.v.percent = RatInt(56)
    /\ ret.result.v.ratio = Rat(44, 100)

\* the optimization of a PNG input failed: oxipng rejected the data
ClaimPassFailed ==
    \/ ~engine_call.env.oxipng_ok
    \/ ~decodes(InitialFiles[engine_call.input_path], "png")

\* what C22 says of a finished call with a PNG target
ClaimPngFallback ==
    LET i == engine_call.input_path
        o == engine_call.output_path
    IN  /\ (extension(i) = Some("png") /\ ClaimPassFailed)
               => /\ engine_call.result.kind = "ok"
                  /\ files[o] = InitialFiles[i]
        /\ (extension(i).v \in {"jpg", "jpeg", "webp"}
              /\ (~engine_call.env.oxipng_ok \/ ~engine_call.env.late_write_ok))
               => /\ engine_call.result.kind = "ok"
                  /\ files[o].codec = "png"
                  /\ files[o].enc = "png-encoder"

\* the calls C22 is about: valid settings, PNG target, an input that exists
\* and can be read and decoded, an output that can be created
ClaimPngCall ==
    /\ engine_call.fn = "compress_file_to_file"
    /\ engine_call.settings.format = "Png"
    /\ is_valid(engine_call.settings)
    /\ CanCreate(engine_call.output_path)
    /\ InitialFiles[engine_call.input_path] # Absent
    /\ CanRead(engine_call.input_path)
    /\ extension(engine_call.input_path).some
    /\ extension(engine_call.input_path).v \in {"jpg", "jpeg", "webp"}
           => decodes(InitialFiles[engine_call.input_path],
                      IF extension(engine_call.input_path).v = "webp"
                      THEN "webp" ELSE "jpeg")

\* C22: for a PNG target a failing optimization pass never fails the
\* request: a PNG input whose optimization fails is copied byte for byte and
\* the call returns Ok; for a JPEG or WebP input re-encoded to PNG, a
\* failure of the optimization pass or of the write of its result leaves the
\* un-optimized PNG as output and the call returns Ok.
C22_PngOptimizationFallback == ClaimPngCall => ClaimPngFallback

\* supporting C22: the same whenever the call returns at all
C22_PngFallbackWhenReturned ==
    (ClaimPngCall /\ engine_call.result.kind # "panic") => ClaimPngFallback

\* supporting C22: b.jpg to PNG, oxipng fails, the call returns Ok with the
\* un-optimized PNG
C22_JpegFallbackReturned ==
    /\ ClaimPngCall
    /\ engine_call.input_path = "b.jpg"
    /\ ~engine_call.env.oxipng_ok
    /\ engine_call.result.kind = "ok"
    /\ files[engine_call.output_path].enc = "png-encoder"

ClaimLast(s, n) == SubSeq(s, Len(s) - n + 1, Len(s))

\* C25: after any sequence of publish and set_max_history_size calls the
\* history is at most max_history_size long and holds the most recently
\* published events in publication order; publish returns Ok even when a
\* listener's handle_event fails.
C25_BoundedRecentHistory ==
    /\ Len(event_bus.event_history) <= event_bus.max_history_size
    /\ Len(event_bus.event_history) <= Len(published)
    /\ event_bus.event_history = ClaimLast(published, Len(event_bus.event_history))
    /\ bus_call.op = "publish"
          => /\ bus_call.result.kind = "ok"
             /\ Len(published) > 0
             /\ event_bus.max_history_size > 0
                    => event_bus.event_history[Len(event_bus.event_history)]
                           = published[Len(published)]

\* five events published with a limit of 3, the last of them to a listener
\* whose handle_event failed: the 3rd, 4th and 5th are kept
C25_Witness ==
    /\ bus_call.op = "publish"
    /\ bus_call.logged > 0
    /\ Len(published) = 5
    /\ event_bus.max_history_size = 3
    /\ [k \in 1..3 |-> event_bus.event_history[k].id] = <<3, 4, 5>>

\* what C26 says of the last update_config call on a held configuration
ClaimUpdateKept(held) ==
    /\ validate(held).kind = "ok"
    /\ config_call.result.kind = "err" => held = config_call.before

\* C26: a configuration update that fails leaves the previously held valid
\* configuration in place, after ConfigManager::update_config and after
\* AppState::update_config, so the held configuration passes validate()
\* after any sequence of updates.
C26_FailedUpdateKeepsConfig ==
    /\ config_call.op = "ConfigManager::update_config"
          => ClaimUpdateKept(config_manager)
    /\ config_call.op = "AppState::update_config"
          => ClaimUpdateKept(app_state_config)
    /\ validate(config_manager).kind = "ok"
    /\ validate(app_state_config).kind = "ok"

\* supporting C26: the same of ConfigManager alone
C26_ConfigManagerKeepsConfig ==
    /\ config_call.op = "ConfigManager::update_config"
          => ClaimUpdateKept(config_manager)
    /\ validate(config_manager).kind = "ok"

\* supporting C26: ConfigManager refused max_file_size = 0 and still holds
\* the 2048 of the update before
C26_ConfigManagerRefused ==
    /\ config_call.op = "ConfigManager::update_config"
    /\ config_call.result.kind = "err"
    /\ config_manager.max_file_size = 2048

\* the call reached the unreachable!() of compress_to_png_file
ClaimReachedUnreachable ==
    /\ engine_call.result.kind = "panic"
    /\ engine_call.result.msg = "internal error: entered unreachable code"

\* C27: compress_file_to_file treats the input extension case-insensitively
\* for every target format: an input whose extension is a supported token
\* in any letter case is routed like its lower-case form and the call ends
\* in Ok or in a typed CompressionError; no input extension makes the engine
\* panic or reach an unreachable branch.
C27_ExtensionCaseInsensitive ==
    engine_call.fn = "compress_file_to_file"
    => /\ ~ClaimReachedUnreachable
       /\ (engine_call.input_path = "c.JPG" /\ is_valid(engine_call.settings)
             /\ CanCreate(engine_call.output_path))
          => \/ engine_call.result.kind = "ok"
             \/ /\ engine_call.result.kind = "panic"
                /\ engine_call.result.msg = "attempt to subtract with overflow"

\* supporting C27: the same for the WebP and JPEG targets
C27_CaseInsensitiveExceptPng ==
    (engine_call.fn = "compress_file_to_file" /\ engine_call.settings.format # "Png")
    => /\ ~ClaimReachedUnreachable
       /\ (engine_call.input_path = "c.JPG" /\ is_valid(engine_call.settings)
             /\ CanCreate(engine_call.output_path))
          => \/ engine_call.result.kind = "ok"
             \/ /\ engine_call.result.kind = "panic"
                /\ engine_call.result.msg = "attempt to subtract with overflow"

\* supporting C27: c.JPG with a WebP target was compressed
C27_UpperCaseToWebp ==
    /\ engine_call.fn = "compress_file_to_file"
    /\ engine_call.input_path = "c.JPG"
    /\ engine_call.settings.format = "WebP"
    /\ engine_call.result.kind = "ok"

\* a calculator whose completion_threshold is greater than 0
ClaimPositiveThreshold ==
    IF calculator.some
    THEN f64_lt(RatInt(0), calculator.config.completion_threshold)
    ELSE FALSE

\* the last call was should_continue_updates
ClaimPolled == progress_call.fn = "should_continue_updates"

\* the last call was should_continue_updates and it returned false
ClaimStopped == IF ClaimPolled THEN ~progress_call.continue ELSE FALSE

\* C28: the loop that polls should_continue_updates terminates: for every
\* config with completion_threshold > 0, estimated_duration_ms = 0
\* included, should_continue_updates eventually returns false as time
\* advances, and once it has returned false it never returns true again.
C28_PollingTerminates ==
    /\ ClaimPositiveThreshold ~> ClaimStopped
    /\ [](ClaimStopped => [](ClaimPolled => ClaimStopped))

\* supporting C28: the same for the configs with estimated_duration_ms > 0
C28_TerminatesWithEstimate ==
    /\ (IF ClaimPositiveThreshold
        THEN calculator.config.estimated_duration_ms > 0
        ELSE FALSE) ~> ClaimStopped
    /\ [](ClaimStopped => [](ClaimPolled => ClaimStopped))

\* supporting C28: with estimated_duration_ms = 0 and a positive finite
\* threshold should_continue_updates returns true whatever the clock says
C28_NoEstimateNeverStops ==
    (ClaimPolled /\ calculator.config.estimated_duration_ms = 0
        /\ IsRat(calculator.config.completion_threshold)
        /\ ClaimPositiveThreshold)
    => progress_call.continue

\* supporting C28: such a poll at the last tick of the clock
C28_StillPollingAtTheEnd ==
    /\ ClaimPolled
    /\ ClaimPositiveThreshold
    /\ calculator.config.estimated_duration_ms = 0
    /\ progress_call.elapsed = MaxElapsed
    /\ progress_call.continue

\* the positions in the event log of the compression-progress events of
\* the compress_image invocation for file i (0-based)
ClaimStagePositions(i) ==
    {k \in 1..Len(events) :
        events[k][1] = "compression-progress" /\ events[k][3] = i}

\* the protocol C29 states for the events of invocation i
ClaimProtocol(i) ==
    LET K == ClaimStagePositions(i)
        first == CHOOSE k \in K : \A m \in K : k <= m
        last == CHOOSE k \in K : \A m \in K : m <= k
        terminal == {k \in K : events[k][2] \in {"Completed", "Error"}}
        processing == {k \in K : events[k][2] = "Processing"}
    IN  K # {} =>
          /\ events[first][2] = "Started"
          /\ Cardinality({k \in K : events[k][2] = "Started"}) = 1
          /\ processing # {}
                => validate_image_file(InitialFiles, batch.file_paths[i + 1])
          /\ terminal = {last}
          /\ i < Len(batch.results)
                => /\ events[last][2] = "Completed" <=> batch.results[i + 1].success
                   /\ events[last][2] = "Error" <=> ~batch.results[i + 1].success

\* C29: every compress_image invocation emits its compression-progress
\* events in protocol order: Started first, Processing only after the file
\* validation succeeded, exactly one terminal event (Completed or Error) and
\* nothing after it, Completed if and only if the response has success =
\* true and Error if and only if it has success = false.
C29_EventProtocol ==
    \A i \in 0..(MaxBatch - 1) : ClaimProtocol(i)

\* supporting C29: the same of the invocations that returned a response
C29_ProtocolWhenReturned ==
    batch.pc # "request" =>
        \A i \in 0..(MaxBatch - 1) : i < Len(batch.results) => ClaimProtocol(i)

\* supporting C29: a batch of a good and a bad file returned
C29_BothProtocolsSeen ==
    /\ batch.pc = "returned"
    /\ Len(batch.results) = 2
    /\ batch.results[1].success
    /\ ~batch.results[2].success

\* what C30 says of one step of the command: the rows of the store before
\* and after, the events emitted, the response
ClaimSaveStep ==
    LET emitted == SubSeq(events', Len(events) + 1, Len(events'))
        completed == \E k \in 1..Len(emitted) : emitted[k][2] = "Completed"
        returned == batch'.pc = "loop" /\ batch.pc = "compress"
        response == batch'.results[Len(batch'.results)]
    IN  /\ Len(rows') \in {Len(rows), Len(rows) + 1}
        /\ SubSeq(rows', 1, Len(rows)) = rows
        /\ Len(rows') = Len(rows) + 1
              => /\ completed
                 /\ returned
                 /\ response.success
                 /\ rows'[Len(rows')].compression_time_ms = Some(TimedMs)
        /\ (returned /\ completed)
              => /\ response.success
                 /\ files'["out"] # Absent
        /\ (returned /\ ~completed) => ~response.success /\ rows' = rows
        /\ batch'.pc = "panicked" => rows' = rows

\* C30: statistics are persisted only by the caller and only for successes:
\* compress_image saves at most one stat per invocation, only after
\* compress_file_to_file returned Ok and never when validation or
\* compression failed, and a save_stat error or an unavailable store leaves
\* the response at success = true with the compression result in place.
C30_StatsOnlyForSuccess == [][ClaimSaveStep]_vars

\* a compression succeeded, its stat could not be saved, and the response
\* says success
C30_Witness ==
    /\ batch.pc # "request"
    /\ Len(batch.results) > 0
    /\ batch.results[1].success
    /\ files["out"] # Absent
    /\ rows = <<>>

=============================================================================
